---- MODULE Spec2Model ----
(***************************************************************************)
(* A model of the `ask` terminal client: the provider streaming calls      *)
(* (src/provider/claude.go, src/provider/deepseek.go, the Mistral and      *)
(* ChatGPT providers), the blocking session REPL (src/session.go) and the  *)
(* event-loop session (SessionModel, second half of                        *)
(* src/provider/claude.go).                                                *)
(*                                                                         *)
(* Bytes of a response body are modelled as tokens: "\n" is the newline,   *)
(* the marker `data: ` is the two tokens "dat" "a: " (so that a read may   *)
(* end inside the marker), a JSON object is "{" kind text... "}" and the   *)
(* sentinel `[DONE]` is one token.  Text is a TLC string; \o concatenates. *)
(***************************************************************************)
EXTENDS Integers, Sequences, FiniteSets, TLC

\* ------------------------------------------------------------------ bounds
MaxLines == 3      \* lines in a generated response body (one-shot calls)
MaxMsgs == 4       \* entries of the session history at which no turn starts
MaxSpin == 1       \* spinner frames painted in one turn
MaxQueue == 3      \* messages pending in the event loop's channel
MaxModels == 2     \* entries of a model-discovery answer

\* --------------------------------------------------------------- constants
StatusOK == 200    \* http.StatusOK
BufSize == 4096    \* len(buf) of the typed-event parser's read buffer

NL == "\n"
Dat == "dat"
Colon == "a: "
Sentinel == "[DONE]"

\* ------------------------------------------------------------ small helpers
Min(a, b) == IF a < b THEN a ELSE b

RECURSIVE Concat(_)
\* strings.Builder.String(): the writes to a buffer, concatenated in order.
Concat(fs) == IF fs = <<>> THEN "" ELSE Head(fs) \o Concat(Tail(fs))

RECURSIVE FlatLines(_)
\* A body: every line followed by a newline.
FlatLines(ls) == IF ls = <<>> THEN <<>> ELSE Head(ls) \o <<NL>> \o FlatLines(Tail(ls))

\* ------------------------------------------------------- provider: framing
Providers == {"claude", "deepseek", "mistral", "chatgpt"}
SessionProviders == {"claude", "deepseek", "mistral"}
Chars == {"a", "b", "c"}
\* JSON object kinds a backend sends: a typed content-delta event, another
\* typed event (possibly with a delta text), a choices chunk, an empty
\* choices chunk.
Kinds == {"cbd", "evt", "choice", "nochoice"}

RECURSIVE IndexNL(_, _)
\* strings.Index(s, "\n") from position i on; 0 when there is none.
IndexNL(bs, i) ==
  IF i > Len(bs) THEN 0 ELSE IF bs[i] = NL THEN i ELSE IndexNL(bs, i + 1)

RECURSIVE Split(_)
\* strings.Split(s, "\n"): the pieces between newlines, k newlines giving
\* k + 1 pieces.
Split(bs) ==
  LET k == IndexNL(bs, 1)
  IN IF k = 0 THEN <<bs>>
     ELSE <<SubSeq(bs, 1, k - 1)>> \o Split(SubSeq(bs, k + 1, Len(bs)))

\* strings.HasPrefix(line, "data: ")
HasPrefix(line) == Len(line) >= 2 /\ line[1] = Dat /\ line[2] = Colon

\* strings.TrimPrefix(line, "data: ")
TrimPrefix(line) == IF HasPrefix(line) THEN SubSeq(line, 3, Len(line)) ELSE line

\* Whether the bytes are one JSON object: an opening brace, a kind, text
\* characters and the closing brace.  A truncated object is not valid JSON.
ValidJSON(data) ==
  /\ Len(data) >= 3
  /\ data[1] = "{"
  /\ data[Len(data)] = "}"
  /\ data[2] \in Kinds
  /\ \A j \in 3..(Len(data) - 1) : data[j] \in Chars

\* The text field of a valid object.
TextOf(data) == Concat(SubSeq(data, 3, Len(data) - 1))

\* json.Unmarshal into claudeStreamEvent: fields the object lacks stay zero.
ClaudeUnmarshal(data) ==
  IF ~ValidJSON(data) THEN [ok |-> FALSE, type |-> "", text |-> ""]
  ELSE [ok |-> TRUE,
        type |-> CASE data[2] = "cbd" -> "content_block_delta"
                   [] data[2] = "evt" -> "message_delta"
                   [] OTHER -> "",
        text |-> IF data[2] \in {"cbd", "evt"} THEN TextOf(data) ELSE ""]

\* json.Unmarshal into deepseekStreamResponse (mistral, chatgpt alike).
ChoicesUnmarshal(data) ==
  IF ~ValidJSON(data) THEN [ok |-> FALSE, choices |-> 0, content |-> ""]
  ELSE [ok |-> TRUE,
        choices |-> IF data[2] = "choice" THEN 1 ELSE 0,
        content |-> IF data[2] = "choice" THEN TextOf(data) ELSE ""]

\* A typed-event loop body that writes the text of an event of any type.
ClaudeLine_AnyType(line) ==
  IF HasPrefix(line)
  THEN LET event == ClaudeUnmarshal(TrimPrefix(line))
       IN IF event.ok /\ event.text # "" THEN <<event.text>> ELSE <<>>
  ELSE <<>>

\* Body of the typed-event parser's loop over the lines of one read: the
\* fragments one line writes.
ClaudeLine(line) ==
  IF HasPrefix(line)
  THEN LET data == TrimPrefix(line)
       IN IF data = <<Sentinel>> THEN <<>>
          ELSE LET event == ClaudeUnmarshal(data)
               IN IF event.ok /\ event.type = "content_block_delta" /\ event.text # ""
                  THEN <<event.text>>
                  ELSE <<>>
  ELSE <<>>

RECURSIVE ClaudeLines(_)
ClaudeLines(lines) ==
  IF lines = <<>> THEN <<>> ELSE ClaudeLine(Head(lines)) \o ClaudeLines(Tail(lines))

\* What one read of n bytes writes: the read is split at newlines and every
\* piece is handled as a line; nothing is kept for the next read.
ClaudeChunk(chunk) == ClaudeLines(Split(chunk))

\* A scanner loop that never leaves at the sentinel.
ScanBreaksAt_Never(line) == FALSE

\* Whether the line-delimited parser leaves its loop at this line.
ScanBreaksAt(line) == HasPrefix(line) /\ TrimPrefix(line) = <<Sentinel>>

\* A scanner loop that leaves at a data line whose payload does not parse.
ScanLine_AbortOnMalformed(line) ==
  IF HasPrefix(line)
  THEN LET streamResp == ChoicesUnmarshal(TrimPrefix(line))
       IN IF ScanBreaksAt(line) \/ ~streamResp.ok THEN [brk |-> TRUE, out |-> <<>>]
          ELSE IF streamResp.choices > 0 /\ streamResp.content # ""
               THEN [brk |-> FALSE, out |-> <<streamResp.content>>]
               ELSE [brk |-> FALSE, out |-> <<>>]
  ELSE [brk |-> FALSE, out |-> <<>>]

\* Body of the scanner loop: whether it breaks, and the fragments written.
ScanLine(line) ==
  IF HasPrefix(line)
  THEN LET data == TrimPrefix(line)
       IN IF ScanBreaksAt(line) THEN [brk |-> TRUE, out |-> <<>>]
          ELSE LET streamResp == ChoicesUnmarshal(data)
               IN IF streamResp.ok /\ streamResp.choices > 0 /\ streamResp.content # ""
                  THEN [brk |-> FALSE, out |-> <<streamResp.content>>]
                  ELSE [brk |-> FALSE, out |-> <<>>]
  ELSE [brk |-> FALSE, out |-> <<>>]

\* ------------------------------------------------------ provider: outcomes
NoErr == [kind |-> "nil", status |-> 0, body |-> <<>>]
SendErr == [kind |-> "send", status |-> 0, body |-> <<>>]
ReadErr == [kind |-> "read", status |-> 0, body |-> <<>>]

\* HandleAPIError: the three statuses with a fixed message, the rest with the
\* status and the raw body.
HandleAPIError(statusCode, body) ==
  CASE statusCode = 401 -> [kind |-> "auth", status |-> 0, body |-> <<>>]
    [] statusCode = 402 -> [kind |-> "billing", status |-> 0, body |-> <<>>]
    [] statusCode = 429 -> [kind |-> "rate", status |-> 0, body |-> <<>>]
    [] OTHER -> [kind |-> "api", status |-> statusCode, body |-> body]

\* fmt.Errorf("API error (status %d): %s", resp.StatusCode, string(body))
GenericAPIError(statusCode, body) ==
  [kind |-> "api", status |-> statusCode, body |-> body]

\* The error a provider returns for a response it does not stream.
StatusError(prov, statusCode, body) ==
  IF prov \in {"claude", "mistral"}
  THEN HandleAPIError(statusCode, body)
  ELSE GenericAPIError(statusCode, body)

\* A read loop that leaves on a read error and returns nil.
StreamReadError_Nil == NoErr

\* return fmt.Errorf("error reading stream: %w", err) of the read loop
StreamReadError == ReadErr

\* scanner.Err() after the scanner loop: the read error, if a read failed.
ScannerErr(broken) == IF broken THEN ReadErr ELSE NoErr

\* A status test that lets every status below 500 through to the parser.
StatusAccepted_Below500(statusCode) == statusCode < 500

\* resp.StatusCode != http.StatusOK is the only test before the stream is read.
StatusAccepted(statusCode) == statusCode = StatusOK

\* Which framing a provider parses.
ChunkReader(prov) == prov = "claude"

\* ------------------------------------------------------------------ facade
\* Names are sequences of pieces: a model name is a prefix piece and the
\* rest, and "/" is a piece of its own.
defaultModels ==
  [gemini |-> <<"gemini", "-2.5-flash">>,
   claude |-> <<"claude", "-3-5-sonnet-20241022">>,
   chatgpt |-> <<"gpt", "-4o">>,
   deepseek |-> <<"deepseek", "-chat">>,
   mistral |-> <<"mistral", "-large-latest">>,
   qwen |-> <<"qwen", "-plus">>]

\* The value for "no provider instance" (nil).
NilProvider == [name |-> "", model |-> <<>>]

\* createProvider: a new facade bound to the model, nil for an unknown name.
createProvider(name, model) ==
  IF name \in DOMAIN defaultModels THEN [name |-> name, model |-> model] ELSE NilProvider

\* strings.Join of the pieces of a name.
RECURSIVE Join(_)
Join(pieces) == IF pieces = <<>> THEN "" ELSE pieces[1] \o Join(Tail(pieces))

\* strings.ToLower on a piece.
ToLower(piece) == IF piece = "Claude" THEN "claude" ELSE piece

\* A table with one more entry, whose prefix another prefix starts with.
modelPrefixes_Mini ==
  [gemini |-> "gemini", gpt |-> "chatgpt", o1 |-> "chatgpt", o3 |-> "chatgpt",
   claude |-> "claude", deepseek |-> "deepseek", mistral |-> "mistral",
   codestral |-> "mistral", pixtral |-> "mistral", ministral |-> "mistral",
   qwen |-> "qwen", mini |-> "chatgpt"]

\* modelPrefixes: model-name prefix -> provider.
modelPrefixes ==
  [gemini |-> "gemini", gpt |-> "chatgpt", o1 |-> "chatgpt", o3 |-> "chatgpt",
   claude |-> "claude", deepseek |-> "deepseek", mistral |-> "mistral",
   codestral |-> "mistral", pixtral |-> "mistral", ministral |-> "mistral",
   qwen |-> "qwen"]

\* ResolveProviderFromModel: the provider of the prefix the lowercased model
\* name starts with, "" when there is none.  No prefix is a prefix of
\* another, so the map's iteration order does not matter.
ResolveProviderFromModel(model) ==
  IF model # <<>> /\ ToLower(model[1]) \in DOMAIN modelPrefixes
  THEN modelPrefixes[ToLower(model[1])]
  ELSE ""

\* The index of the first "/" piece, 0 when there is none.
IndexSlash(spec) ==
  IF \E k \in 1..Len(spec) : spec[k] = "/"
  THEN CHOOSE k \in 1..Len(spec) : spec[k] = "/" /\ \A j \in 1..(k - 1) : spec[j] # "/"
  ELSE 0

\* ParseModelSpec: strings.SplitN(spec, "/", 2).
ParseModelSpec(spec) ==
  LET k == IndexSlash(spec) IN
  IF k > 0
  THEN [provider |-> Join(SubSeq(spec, 1, k - 1)), model |-> SubSeq(spec, k + 1, Len(spec))]
  ELSE [provider |-> "", model |-> spec]

knownProviders == {"gemini", "claude", "chatgpt", "deepseek", "mistral", "qwen"}

\* The arguments typed after /model; <<>> is the missing argument.
ModelSpecs ==
  { <<>>,
    <<"deepseek">>,
    <<"chatgpt">>,
    <<"claude", "/", "Claude", "-3-opus">>,
    <<"claude", "/", "deepseek">>,
    <<"ollama", "/", "llama", "-3">>,
    <<"Claude", "-3-opus">>,
    <<"llama", "-3">> }

ProviderConfig(model) == [APIKey |-> "key", Model |-> model]

\* LoadConfigSafe: an error, or the providers section of the config file.
LoadConfigSafe ==
  { [err |-> TRUE, Providers |-> <<>>],
    [err |-> FALSE,
     Providers |-> [p \in SessionProviders |-> ProviderConfig(<<>>)]],
    [err |-> FALSE,
     Providers |-> [p \in {"claude", "deepseek", "ollama"} |->
                      ProviderConfig(IF p = "deepseek" THEN <<"deepseek", "-coder">> ELSE <<>>)]] }

\* The /model branch of Session.handleCommand up to the assignment: ok is
\* FALSE on every early return.
SwitchModel(spec, current, config) ==
  LET parsed == ParseModelSpec(spec)
      detected == IF parsed.provider = "" THEN ResolveProviderFromModel(parsed.model)
                  ELSE parsed.provider
      isKnown == Join(parsed.model) \in knownProviders
      afterLoop == IF isKnown THEN Join(parsed.model) ELSE detected
      model1 == IF isKnown THEN <<>> ELSE parsed.model
      newProvider == IF afterLoop = "" THEN current ELSE afterLoop
      exists == ~config.err /\ newProvider \in DOMAIN config.Providers
      pc0 == config.Providers[newProvider]
      newModel == IF model1 # <<>> THEN model1
                  ELSE IF pc0.Model # <<>> THEN pc0.Model
                  ELSE IF newProvider \in DOMAIN defaultModels THEN defaultModels[newProvider]
                  ELSE <<>>
      instance == createProvider(newProvider, newModel)
  IN
  IF spec = <<>> \/ config.err \/ ~exists THEN [ok |-> FALSE]
  ELSE IF instance = NilProvider THEN [ok |-> FALSE]
  ELSE [ok |-> TRUE, instance |-> instance, provider |-> newProvider, model |-> newModel]

\* NewSessionModel: no size is known and the viewport does not exist yet.
NoGeometry ==
  [width |-> 0, height |-> 0, ready |-> FALSE, vpWidth |-> 0, vpHeight |-> 0, taWidth |-> 0]

\* ------------------------------------------------------------------- state
VARIABLES
  mode,           \* which entry point runs: "oneshot", "repl" or "tui"
  pc,             \* position of the main goroutine (or of the event loop)
  provider,       \* Session.provider / SessionModel.provider: the bound facade
  providerName,   \* the provider the session's facade is bound to
  modelName,      \* the model the session's facade is bound to
  calls,          \* the streaming calls that have not been collected yet
  messages,       \* Session.messages / SessionModel.messages
  msgs,           \* the snapshot handed to queryWithSpinner
  input,          \* the line last read
  response,       \* the text the last call produced
  err,            \* the error the last call returned
  resultChan,     \* queryWithSpinner's result channel (capacity 1)
  done,           \* queryWithSpinner's done channel is closed
  spin,           \* position of the spinner goroutine
  frame,          \* the spinner's frame counter i
  indicator,      \* a spinner frame is on the terminal line
  loading,        \* SessionModel.loading
  currentStream,  \* SessionModel.currentStream
  progq,          \* messages sent to the tea.Program, not yet handled by Update
  sigChan,        \* a signal is in RunSessionREPL's sigChan (capacity 1)
  geometry,       \* SessionModel's width, height, ready, viewport and textarea sizes
  held,           \* the holder of Session.mu and of SessionModel.streamMu
  acc             \* the accesses to shared fields made by the latest statement

vars == <<mode, pc, provider, providerName, modelName, calls, messages, msgs, input,
          response, err,
          resultChan, done, spin, frame, indicator, loading, currentStream, progq,
          sigChan, geometry, held, acc>>

facadeVars == <<provider, providerName, modelName>>
envVars == <<sigChan, geometry, held, acc>>
replVars == <<resultChan, done, spin, frame, indicator>>
tuiVars == <<loading, currentStream, progq>>
turnVars == <<messages, msgs, input, response, err>>

\* ------------------------------------------------------- backend responses
Delta(kind, text) == <<Dat, Colon, "{", kind>> \o text \o <<"}">>
DeltaKind(prov) == IF ChunkReader(prov) THEN "cbd" ELSE "choice"
OtherKind(prov) == IF ChunkReader(prov) THEN "evt" ELSE "nochoice"
DoneLine == <<Dat, Colon, Sentinel>>

\* The lines a backend's stream is made of: deltas, a delta with empty text,
\* an event without visible text, the sentinel, a blank keep-alive line, an
\* `event:` line without the marker, and a truncated object.
Lines(prov) ==
  { Delta(DeltaKind(prov), <<"a">>),
    Delta(DeltaKind(prov), <<"b", "c">>),
    Delta(DeltaKind(prov), <<>>),
    Delta(OtherKind(prov), <<"c">>),
    DoneLine,
    <<>>,
    <<"event">>,
    <<Dat, Colon, "{", DeltaKind(prov), "a">> }

Bodies(prov) ==
  { FlatLines(ls) : ls \in UNION { [1..n -> Lines(prov)] : n \in 0..MaxLines } }

Statuses == {204, 301, 400, 401, 402, 404, 429, 500}
ErrBodies(prov) == { <<>>, <<"nf">>, FlatLines(<<Delta(DeltaKind(prov), <<"a">>)>>) }

ConnFailure == [connErr |-> TRUE, status |-> 0, body |-> <<>>]

\* What a backend may answer to a one-shot call.
OneShotResponses(prov) ==
  {ConnFailure}
    \cup { [connErr |-> FALSE, status |-> StatusOK, body |-> b] : b \in Bodies(prov) }
    \cup { [connErr |-> FALSE, status |-> st, body |-> b] :
             st \in Statuses, b \in ErrBodies(prov) }

\* What a backend may answer to a turn of a session.
SessionResponses(prov) ==
  { ConnFailure,
    [connErr |-> FALSE, status |-> 401, body |-> <<>>],
    [connErr |-> FALSE, status |-> 404, body |-> <<"nf">>],
    [connErr |-> FALSE, status |-> StatusOK,
     body |-> FlatLines(<<Delta(DeltaKind(prov), <<"a">>),
                          Delta(DeltaKind(prov), <<"b", "c">>), DoneLine>>)],
    [connErr |-> FALSE, status |-> StatusOK, body |-> FlatLines(<<DoneLine>>)] }

Responses(prov) ==
  IF mode = "oneshot" THEN OneShotResponses(prov) ELSE SessionResponses(prov)

Inputs == {"hi", "yo"}
UserMsg(text) == [role |-> "user", content |-> text]
AssistantMsg(text) == [role |-> "assistant", content |-> text]

\* ------------------------------------------------------------------- calls
\* A call of QueryStream / QueryStreamWithHistory: the request is sent, the
\* response is being read, or the call has returned.  w is the writer: a
\* strings.Builder ("buf") or the streamWriter of the event loop ("prog").
\* A conversion that puts only the latest message in the request.
RequestMessages_LatestOnly(ms) ==
  IF ms = <<>> THEN <<>> ELSE <<ms[Len(ms)]>>

\* The conversion loop in front of the request: one entry of the provider's
\* message type per message, same role and content, same order.
RequestMessages(ms) ==
  [k \in 1..Len(ms) |-> [role |-> ms[k].role, content |-> ms[k].content]]

\* req is the message list of the request body.
NewCall(prov, ms, w) ==
  [prov |-> prov, msgs |-> ms, req |-> RequestMessages(ms), w |-> w, st |-> "sent",
   status |-> 0, body |-> <<>>, pos |-> 0, sink |-> <<>>, broken |-> FALSE,
   err |-> NoErr]

RemoveAt(seq, k) == SubSeq(seq, 1, k - 1) \o SubSeq(seq, k + 1, Len(seq))

ChunkMsg(text) == [type |-> "chunk", text |-> text, err |-> NoErr]
DoneMsg(e) == [type |-> "done", text |-> "", err |-> e]

RECURSIVE ChunkMsgs(_)
ChunkMsgs(out) ==
  IF out = <<>> THEN <<>> ELSE <<ChunkMsg(Head(out))>> \o ChunkMsgs(Tail(out))

Running == pc # "exit"

\* fmt.Fprint(writer, text) for each fragment of out, in order: a Builder
\* appends it, the streamWriter sends a streamChunkMsg to the program.
Write(c, out, next) ==
  /\ calls' = [calls EXCEPT ![c] = [next EXCEPT !.sink = calls[c].sink \o out]]
  /\ IF calls[c].w = "prog"
     THEN /\ Len(progq) + Len(out) <= MaxQueue
          /\ progq' = progq \o ChunkMsgs(out)
     ELSE progq' = progq

Returned(call, e) == [call EXCEPT !.st = "returned", !.err = e]

\* A status test that lets every 2xx status through to the parser.
Respond_Any2xx(c) ==
  /\ Running
  /\ calls[c].st = "sent"
  /\ \E r \in Responses(calls[c].prov) :
       LET call == [calls[c] EXCEPT !.status = r.status, !.body = r.body]
       IN calls' = [calls EXCEPT ![c] =
            IF r.connErr THEN Returned(calls[c], SendErr)
            ELSE IF ~(r.status \in 200..299)
                 THEN Returned(call, StatusError(call.prov, r.status, r.body))
                 ELSE [call EXCEPT !.st = "reading"]]
  /\ UNCHANGED <<envVars, mode, pc, facadeVars, turnVars, replVars, tuiVars>>

\* client.Do and the status test: a failed request or a status other than
\* 200 ends the call with an error before the body is parsed.
Respond(c) ==
  /\ Running
  /\ calls[c].st = "sent"
  /\ \E r \in Responses(calls[c].prov) :
       LET call == [calls[c] EXCEPT !.status = r.status, !.body = r.body]
       IN calls' = [calls EXCEPT ![c] =
            IF r.connErr THEN Returned(calls[c], SendErr)
            ELSE IF ~StatusAccepted(r.status)
                 THEN Returned(call, StatusError(call.prov, r.status, r.body))
                 ELSE [call EXCEPT !.st = "reading"]]
  /\ UNCHANGED <<envVars, mode, pc, facadeVars, turnVars, replVars, tuiVars>>

\* One iteration of the typed-event parser's loop: a read of n bytes, split
\* into lines and written.
ClaudeRead(c) ==
  /\ Running
  /\ calls[c].st = "reading"
  /\ ChunkReader(calls[c].prov)
  /\ \E n \in 1..Min(BufSize, Len(calls[c].body) - calls[c].pos) :
       LET chunk == SubSeq(calls[c].body, calls[c].pos + 1, calls[c].pos + n)
       IN Write(c, ClaudeChunk(chunk), [calls[c] EXCEPT !.pos = calls[c].pos + n])
  /\ UNCHANGED <<envVars, mode, pc, facadeVars, turnVars, replVars, loading, currentStream>>

\* The read that returns no byte at the end of the body: the loop is left
\* and the call returns nil.
ClaudeEOF(c) ==
  /\ Running
  /\ calls[c].st = "reading"
  /\ ChunkReader(calls[c].prov)
  /\ calls[c].pos = Len(calls[c].body)
  /\ calls' = [calls EXCEPT ![c] = Returned(calls[c], NoErr)]
  /\ UNCHANGED <<envVars, mode, pc, facadeVars, turnVars, replVars, tuiVars>>

\* A read that returns an error other than io.EOF: the call returns it, and
\* bytes returned along with it are dropped.
ClaudeReadErr(c) ==
  /\ Running
  /\ calls[c].st = "reading"
  /\ ChunkReader(calls[c].prov)
  /\ calls' = [calls EXCEPT ![c] =
                 Returned([calls[c] EXCEPT !.broken = TRUE], StreamReadError)]
  /\ UNCHANGED <<envVars, mode, pc, facadeVars, turnVars, replVars, tuiVars>>

\* The end of the line that starts after pos: the position of its newline,
\* or the end of the body.
LineEnd(body, pos) ==
  LET k == IndexNL(body, pos + 1) IN IF k = 0 THEN Len(body) ELSE k - 1

\* One iteration of the scanner loop: the next line is scanned and handled.
\* At the sentinel the loop is left; scanner.Err() is nil unless the read
\* that brought the line also reported an error (broken).
ScanStep(c) ==
  /\ Running
  /\ calls[c].st = "reading"
  /\ ~ChunkReader(calls[c].prov)
  /\ calls[c].pos < Len(calls[c].body)
  /\ LET body == calls[c].body
         e == LineEnd(body, calls[c].pos)
         line == SubSeq(body, calls[c].pos + 1, e)
         r == ScanLine(line)
         next == [calls[c] EXCEPT !.pos = Min(e + 1, Len(body))]
     IN IF r.brk
        THEN /\ \E b \in BOOLEAN :
                  calls' = [calls EXCEPT ![c] =
                              Returned([next EXCEPT !.broken = b], ScannerErr(b))]
             /\ progq' = progq
        ELSE Write(c, r.out, next)
  /\ UNCHANGED <<envVars, mode, pc, facadeVars, turnVars, replVars, loading, currentStream>>

\* scanner.Scan() returns false at the end of the body and scanner.Err() is nil.
ScanEOF(c) ==
  /\ Running
  /\ calls[c].st = "reading"
  /\ ~ChunkReader(calls[c].prov)
  /\ calls[c].pos = Len(calls[c].body)
  /\ calls' = [calls EXCEPT ![c] = Returned(calls[c], ScannerErr(FALSE))]
  /\ UNCHANGED <<envVars, mode, pc, facadeVars, turnVars, replVars, tuiVars>>

\* The transport fails after k more bytes of the current line: the scanner
\* hands the partial line over as its last token, the loop handles it, then
\* scanner.Err() is the read error.
ScanFail(c) ==
  /\ Running
  /\ calls[c].st = "reading"
  /\ ~ChunkReader(calls[c].prov)
  /\ LET body == calls[c].body
         pos == calls[c].pos
     IN \E k \in 0..(LineEnd(body, pos) - pos) :
          LET line == SubSeq(body, pos + 1, pos + k)
              r == IF k = 0 THEN [brk |-> FALSE, out |-> <<>>] ELSE ScanLine(line)
          IN Write(c, r.out, Returned([calls[c] EXCEPT !.pos = pos + k, !.broken = TRUE],
                                      ScannerErr(TRUE)))
  /\ UNCHANGED <<envVars, mode, pc, facadeVars, turnVars, replVars, loading, currentStream>>

CallStep(c) ==
  \/ Respond(c)
  \/ ClaudeRead(c)
  \/ ClaudeEOF(c)
  \/ ClaudeReadErr(c)
  \/ ScanStep(c)
  \/ ScanEOF(c)
  \/ ScanFail(c)

\* ------------------------------------------------------------ one-shot run
\* main: p.QueryStream(prompt, &responseBuffer) has returned; the error is
\* reported or the response rendered, and the process ends.
MainDone ==
  /\ mode = "oneshot"
  /\ pc = "wait"
  /\ Len(calls) = 1
  /\ calls[1].st = "returned"
  /\ response' = Concat(calls[1].sink)
  /\ err' = calls[1].err
  /\ pc' = "exit"
  /\ UNCHANGED <<envVars, mode, facadeVars, calls, messages, msgs, input, replVars, tuiVars>>

InitCommon ==
  /\ modelName = defaultModels[providerName]
  /\ provider = createProvider(providerName, modelName)
  /\ messages = <<>>
  /\ msgs = <<>>
  /\ input = ""
  /\ response = ""
  /\ err = NoErr
  /\ resultChan = <<>>
  /\ done = FALSE
  /\ spin = "none"
  /\ frame = 0
  /\ indicator = FALSE
  /\ loading = FALSE
  /\ currentStream = ""
  /\ progq = <<>>
  /\ sigChan = FALSE
  /\ geometry = NoGeometry
  /\ held = [mu |-> "none", streamMu |-> "none"]
  /\ acc = {}

\* main with a prompt: the provider is created and QueryStream is called
\* with the prompt as the only message.
InitOneShot ==
  /\ mode = "oneshot"
  /\ pc = "wait"
  /\ providerName \in Providers
  /\ \E prompt \in Inputs :
       calls = <<NewCall(providerName, <<UserMsg(prompt)>>, "buf")>>
  /\ InitCommon

NextOneShot ==
  \/ \E c \in DOMAIN calls : CallStep(c)
  \/ MainDone

SpecCall == InitOneShot /\ [][NextOneShot]_vars

\* -------------------------------------------------- blocking session (REPL)
ReplCommands == {"/exit", "/clear", "/help", "/bogus"}

Front(seq) == SubSeq(seq, 1, Len(seq) - 1)

\* make([]provider.Message, len); copy(msgs, session.messages)
Snapshot(history) == [k \in 1..Len(history) |-> history[k]]

\* A failure branch that leaves the history as it is.
Rollback_Keep(history) == history

\* "Remove failed message": the last entry is dropped when there is one.
Rollback(history) == IF Len(history) > 0 THEN Front(history) ELSE history

\* An assistant reply put in front of the last entry instead of after it.
Commit_Swapped(history, text) ==
  IF history = <<>> THEN <<AssistantMsg(text)>>
  ELSE Front(history) \o <<AssistantMsg(text), history[Len(history)]>>

\* "Add assistant response": the reply is appended to the history.
Commit(history, text) == Append(history, AssistantMsg(text))

\* A return that does not wait for the spinner goroutine.
SpinnerJoined_NoWait == TRUE

\* wg.Wait() returns once the spinner goroutine has run its deferred wg.Done().
SpinnerJoined == spin = "exited"

\* A line that is empty after strings.TrimSpace: the loop continues.
ReplEmptyLine ==
  /\ mode = "repl"
  /\ pc = "read"
  /\ input' = ""
  /\ UNCHANGED <<envVars, mode, pc, facadeVars, calls, messages, msgs, response, err,
                 replVars, tuiVars>>

\* scanner.Scan() returns false: the loop is left and the session ends.
ReplEOF ==
  /\ mode = "repl"
  /\ pc = "read"
  /\ pc' = "exit"
  /\ UNCHANGED <<envVars, mode, facadeVars, calls, turnVars, replVars, tuiVars>>

\* A command handler whose help also empties the history.
ReplCommand_HelpClears ==
  /\ mode = "repl"
  /\ pc = "read"
  /\ \E cmd \in ReplCommands :
       /\ input' = cmd
       /\ pc' = IF cmd = "/exit" THEN "exit" ELSE "read"
       /\ messages' = IF cmd \in {"/clear", "/help"} THEN <<>> ELSE messages
  /\ UNCHANGED <<envVars, mode, facadeVars, calls, msgs, response, err, replVars, tuiVars>>

\* A line that starts with "/": Session.handleCommand.
ReplCommand ==
  /\ mode = "repl"
  /\ pc = "read"
  /\ \E cmd \in ReplCommands :
       /\ input' = cmd
       /\ pc' = IF cmd = "/exit" THEN "exit" ELSE "read"
       /\ messages' = IF cmd = "/clear" THEN <<>> ELSE messages
  /\ UNCHANGED <<envVars, mode, facadeVars, calls, msgs, response, err, replVars, tuiVars>>

\* The line "/model <spec>" as typed ("/model" alone when spec is missing).
ModelCommand(spec) == IF spec = <<>> THEN "/model" ELSE "/model " \o Join(spec)

\* A /model branch that assigns the names and keeps the old facade.
ReplModel_NamesOnly ==
  /\ mode = "repl"
  /\ pc = "read"
  /\ \E spec \in ModelSpecs, config \in LoadConfigSafe :
       LET r == SwitchModel(spec, providerName, config) IN
       /\ input' = ModelCommand(spec)
       /\ IF r.ok
          THEN /\ provider' = provider
               /\ providerName' = r.provider
               /\ modelName' = r.model
          ELSE UNCHANGED facadeVars
  /\ UNCHANGED <<envVars, mode, pc, calls, messages, msgs, response, err, replVars, tuiVars>>

\* /model, /m: on success the facade, the provider name and the model name
\* are assigned; every early return leaves them.
ReplModel ==
  /\ mode = "repl"
  /\ pc = "read"
  /\ \E spec \in ModelSpecs, config \in LoadConfigSafe :
       LET r == SwitchModel(spec, providerName, config) IN
       /\ input' = ModelCommand(spec)
       /\ IF r.ok
          THEN /\ provider' = r.instance
               /\ providerName' = r.provider
               /\ modelName' = r.model
          ELSE UNCHANGED facadeVars
  /\ UNCHANGED <<envVars, mode, pc, calls, messages, msgs, response, err, replVars, tuiVars>>

\* A loop body that copies the history before it appends the user message.
ReplSubmit_SnapshotFirst ==
  /\ mode = "repl"
  /\ pc = "read"
  /\ Len(messages) + 2 <= MaxMsgs
  /\ \E in \in Inputs :
       /\ input' = in
       /\ messages' = Append(messages, UserMsg(in))
       /\ msgs' = Snapshot(messages)
       /\ calls' = Append(calls, NewCall(provider.name, msgs', "buf"))
  /\ resultChan' = <<>>
  /\ done' = FALSE
  /\ spin' = "select"
  /\ frame' = 0
  /\ pc' = "wait"
  /\ UNCHANGED <<envVars, mode, facadeVars, response, err, indicator, tuiVars>>

\* Any other line: the user message is appended, the history is copied, and
\* queryWithSpinner starts the query goroutine and the spinner goroutine and
\* blocks on the result channel.
ReplSubmit ==
  /\ mode = "repl"
  /\ pc = "read"
  /\ Len(messages) + 2 <= MaxMsgs
  /\ \E in \in Inputs :
       /\ input' = in
       /\ messages' = Append(messages, UserMsg(in))
       /\ msgs' = Snapshot(messages')
       /\ calls' = Append(calls, NewCall(provider.name, msgs', "buf"))
  /\ resultChan' = <<>>
  /\ done' = FALSE
  /\ spin' = "select"
  /\ frame' = 0
  /\ pc' = "wait"
  /\ UNCHANGED <<envVars, mode, facadeVars, response, err, indicator, tuiVars>>

\* A query goroutine that ends without sending when the call failed.
QuerySend_DropOnError(c) ==
  /\ mode = "repl"
  /\ Running
  /\ calls[c].st = "returned"
  /\ Len(resultChan) < 1
  /\ resultChan' = IF calls[c].err # NoErr THEN resultChan
                   ELSE Append(resultChan,
                               [response |-> Concat(calls[c].sink), err |-> calls[c].err])
  /\ calls' = RemoveAt(calls, c)
  /\ UNCHANGED <<envVars, mode, pc, facadeVars, turnVars, done, spin, frame, indicator, tuiVars>>

\* The query goroutine: the call has returned, the result is sent on the
\* buffered channel and the goroutine ends.
QuerySend(c) ==
  /\ mode = "repl"
  /\ Running
  /\ calls[c].st = "returned"
  /\ Len(resultChan) < 1
  /\ resultChan' = Append(resultChan,
                          [response |-> Concat(calls[c].sink), err |-> calls[c].err])
  /\ calls' = RemoveAt(calls, c)
  /\ UNCHANGED <<envVars, mode, pc, facadeVars, turnVars, done, spin, frame, indicator, tuiVars>>

\* A receive that takes a result without text for a failed call.
ReplRecv_EmptyFails ==
  /\ mode = "repl"
  /\ pc = "wait"
  /\ resultChan # <<>>
  /\ response' = Head(resultChan).response
  /\ err' = IF Head(resultChan).response = "" THEN SendErr ELSE Head(resultChan).err
  /\ resultChan' = Tail(resultChan)
  /\ done' = TRUE
  /\ pc' = "join"
  /\ UNCHANGED <<envVars, mode, facadeVars, calls, messages, msgs, input, spin, frame,
                 indicator, tuiVars>>

\* res := <-resultChan; close(done)
ReplRecv ==
  /\ mode = "repl"
  /\ pc = "wait"
  /\ resultChan # <<>>
  /\ response' = Head(resultChan).response
  /\ err' = Head(resultChan).err
  /\ resultChan' = Tail(resultChan)
  /\ done' = TRUE
  /\ pc' = "join"
  /\ UNCHANGED <<envVars, mode, facadeVars, calls, messages, msgs, input, spin, frame,
                 indicator, tuiVars>>

\* A loop body whose msgs is the history itself instead of a copy of it.
ReplJoin_SharedSnapshot ==
  /\ mode = "repl"
  /\ pc = "join"
  /\ SpinnerJoined
  /\ messages' = IF err # NoErr
                 THEN Rollback(messages)
                 ELSE Commit(messages, response)
  /\ msgs' = messages'
  /\ pc' = "read"
  /\ UNCHANGED <<envVars, mode, facadeVars, calls, input, response, err, replVars,
                 tuiVars>>

\* wg.Wait() returns, queryWithSpinner returns, and the loop body ends: on an
\* error the pending user message is removed, otherwise the assistant
\* message is appended and rendered.
ReplJoin ==
  /\ mode = "repl"
  /\ pc = "join"
  /\ SpinnerJoined
  /\ messages' = IF err # NoErr
                 THEN Rollback(messages)
                 ELSE Commit(messages, response)
  /\ pc' = "read"
  /\ UNCHANGED <<envVars, mode, facadeVars, calls, msgs, input, response, err, replVars,
                 tuiVars>>

\* A spinner loop without the done case: it paints and sleeps, nothing else.
SpinSelect_NoDoneCase ==
  /\ mode = "repl"
  /\ Running
  /\ spin = "select"
  /\ frame < MaxSpin
  /\ spin' = "paint"
  /\ indicator' = indicator
  /\ UNCHANGED <<envVars, mode, pc, facadeVars, calls, turnVars, resultChan, done, frame,
                 tuiVars>>

\* The spinner's select: the done case when the channel is closed, else the
\* default case.
SpinSelect ==
  /\ mode = "repl"
  /\ Running
  /\ spin = "select"
  /\ IF done
     THEN /\ indicator' = FALSE
          /\ spin' = "exited"
     ELSE /\ frame < MaxSpin
          /\ spin' = "paint"
          /\ indicator' = indicator
  /\ UNCHANGED <<envVars, mode, pc, facadeVars, calls, turnVars, resultChan, done, frame,
                 tuiVars>>

\* The default case: the frame is printed and i incremented.
SpinPaint ==
  /\ mode = "repl"
  /\ Running
  /\ spin = "paint"
  /\ indicator' = TRUE
  /\ frame' = frame + 1
  /\ spin' = "sleep"
  /\ UNCHANGED <<envVars, mode, pc, facadeVars, calls, turnVars, resultChan, done, tuiVars>>

\* time.Sleep(80 * time.Millisecond) ends.
SpinWake ==
  /\ mode = "repl"
  /\ Running
  /\ spin = "sleep"
  /\ spin' = "select"
  /\ UNCHANGED <<envVars, mode, pc, facadeVars, calls, turnVars, resultChan, done, frame,
                 indicator, tuiVars>>

\* ---------------------------------------------------- event-loop session
TuiCommands == {"/exit", "/clear", "/help", "/bogus"}
SystemMsg(text) == [role |-> "system", content |-> text]
ErrorMsg(text) == [role |-> "error", content |-> text]

\* fmt.Sprintf("Error: %v", msg.err)
ErrText(e) == "Error: " \o e.kind

RECURSIVE ChatOnly(_)
\* startStreaming's loop: the user and assistant entries, in order.
ChatOnly(history) ==
  IF history = <<>> THEN <<>>
  ELSE IF Head(history).role \in {"user", "assistant"}
       THEN <<[role |-> Head(history).role, content |-> Head(history).content]>>
              \o ChatOnly(Tail(history))
       ELSE ChatOnly(Tail(history))

\* An Enter handler without the loading test.
EnterAccepted_Always == TRUE

\* KeyEnter is ignored while a turn is loading.
EnterAccepted == ~loading

\* What the stream-done handler does to the history when the call failed.
DoneFailed(history, e) == Append(history, ErrorMsg(ErrText(e)))

\* A command handler whose clear adds the notice and keeps the entries.
TuiHandleCommand_ClearKeeps(cmd) ==
  /\ pc' = IF cmd = "/exit" THEN "exit" ELSE "run"
  /\ messages' =
       CASE cmd = "/exit" -> messages
         [] cmd = "/clear" -> Append(messages, SystemMsg("Conversation cleared."))
         [] cmd = "/help" -> Append(messages, SystemMsg("Commands"))
         [] OTHER -> Append(messages, ErrorMsg("Unknown command: " \o cmd))
  /\ UNCHANGED <<calls, loading, currentStream>>

\* SessionModel.handleCommand
TuiHandleCommand(cmd) ==
  /\ pc' = IF cmd = "/exit" THEN "exit" ELSE "run"
  /\ messages' =
       CASE cmd = "/exit" -> messages
         [] cmd = "/clear" -> <<SystemMsg("Conversation cleared.")>>
         [] cmd = "/help" -> Append(messages, SystemMsg("Commands"))
         [] OTHER -> Append(messages, ErrorMsg("Unknown command: " \o cmd))
  /\ UNCHANGED <<calls, loading, currentStream>>

\* An Enter handler that tests loading only after commands were dispatched.
TuiEnter_CommandsWhileLoading ==
  /\ mode = "tui"
  /\ pc = "run"
  /\ Len(messages) + 2 <= MaxMsgs
  /\ \E in \in Inputs \cup TuiCommands \cup {""} :
       /\ input' = in
       /\ IF in = ""
          THEN UNCHANGED <<pc, calls, messages, loading, currentStream>>
          ELSE IF in \in TuiCommands
               THEN TuiHandleCommand(in)
               ELSE IF ~EnterAccepted
                    THEN UNCHANGED <<pc, calls, messages, loading, currentStream>>
                    ELSE /\ messages' = Append(messages, UserMsg(in))
                         /\ loading' = TRUE
                         /\ currentStream' = ""
                         /\ calls' = Append(calls, [NewCall(provider.name, <<>>, "prog")
                                                      EXCEPT !.st = "cmd"])
                         /\ pc' = pc
  /\ UNCHANGED <<envVars, mode, facadeVars, msgs, response, err, replVars, progq>>

\* Update(KeyEnter): nothing while loading; otherwise input is the trimmed
\* textarea value: nothing when it is empty, a command is dispatched,
\* anything else is appended as the user message and the streaming command
\* is handed to the runtime.
TuiEnter ==
  /\ mode = "tui"
  /\ pc = "run"
  /\ Len(messages) + 2 <= MaxMsgs
  /\ \E in \in Inputs \cup TuiCommands \cup {""} :
       IF ~EnterAccepted
       THEN UNCHANGED <<pc, calls, messages, input, loading, currentStream>>
       ELSE /\ input' = in
            /\ IF in = ""
               THEN UNCHANGED <<pc, calls, messages, loading, currentStream>>
               ELSE IF in \in TuiCommands
                    THEN TuiHandleCommand(in)
                    ELSE /\ messages' = Append(messages, UserMsg(in))
                         /\ loading' = TRUE
                         /\ currentStream' = ""
                         /\ calls' = Append(calls, [NewCall(provider.name, <<>>, "prog")
                                                      EXCEPT !.st = "cmd"])
                         /\ pc' = pc
  /\ UNCHANGED <<envVars, mode, facadeVars, msgs, response, err, replVars, progq>>

\* A streaming command that sends every entry of the list.
TuiCmdStart_AllEntries(c) ==
  /\ mode = "tui"
  /\ Running
  /\ calls[c].st = "cmd"
  /\ calls' = [calls EXCEPT ![c] =
                 [@ EXCEPT !.st = "sent", !.msgs = messages,
                           !.req = RequestMessages(messages)]]
  /\ UNCHANGED <<envVars, mode, pc, facadeVars, turnVars, replVars, tuiVars>>

\* The streaming command starts to run: it collects the user and assistant
\* entries of the history and calls the provider.
TuiCmdStart(c) ==
  /\ mode = "tui"
  /\ Running
  /\ calls[c].st = "cmd"
  /\ calls' = [calls EXCEPT ![c] =
                 [@ EXCEPT !.st = "sent", !.msgs = ChatOnly(messages),
                           !.req = RequestMessages(ChatOnly(messages))]]
  /\ UNCHANGED <<envVars, mode, pc, facadeVars, turnVars, replVars, tuiVars>>

\* A runtime that delivers streamDoneMsg ahead of the fragments still queued.
TuiCmdDone_JumpsQueue(c) ==
  /\ mode = "tui"
  /\ Running
  /\ calls[c].st = "returned"
  /\ Len(progq) < MaxQueue
  /\ progq' = <<DoneMsg(calls[c].err)>> \o progq
  /\ calls' = RemoveAt(calls, c)
  /\ UNCHANGED <<envVars, mode, pc, facadeVars, turnVars, replVars, loading, currentStream>>

\* The streaming command returns streamDoneMsg{err}, which the runtime sends
\* to the program.
TuiCmdDone(c) ==
  /\ mode = "tui"
  /\ Running
  /\ calls[c].st = "returned"
  /\ Len(progq) < MaxQueue
  /\ progq' = Append(progq, DoneMsg(calls[c].err))
  /\ calls' = RemoveAt(calls, c)
  /\ UNCHANGED <<envVars, mode, pc, facadeVars, turnVars, replVars, loading, currentStream>>

\* A fragment handler that puts the fragment in front of the text so far.
TuiChunk_Prepend ==
  /\ mode = "tui"
  /\ pc = "run"
  /\ progq # <<>>
  /\ Head(progq).type = "chunk"
  /\ currentStream' = Head(progq).text \o currentStream
  /\ progq' = Tail(progq)
  /\ UNCHANGED <<envVars, mode, pc, facadeVars, calls, turnVars, replVars, loading>>

\* Update(streamChunkMsg)
TuiChunk ==
  /\ mode = "tui"
  /\ pc = "run"
  /\ progq # <<>>
  /\ Head(progq).type = "chunk"
  /\ currentStream' = currentStream \o Head(progq).text
  /\ progq' = Tail(progq)
  /\ UNCHANGED <<envVars, mode, pc, facadeVars, calls, turnVars, replVars, loading>>

\* A stream-done handler that issues the request again after an error.
TuiDone_RetryOnError ==
  /\ mode = "tui"
  /\ pc = "run"
  /\ progq # <<>>
  /\ Head(progq).type = "done"
  /\ IF Head(progq).err # NoErr
     THEN /\ calls' = Append(calls, [NewCall(provider.name, <<>>, "prog")
                                      EXCEPT !.st = "cmd"])
          /\ UNCHANGED <<loading, messages>>
     ELSE /\ loading' = FALSE
          /\ messages' = Append(messages, AssistantMsg(currentStream))
          /\ calls' = calls
  /\ currentStream' = ""
  /\ progq' = Tail(progq)
  /\ UNCHANGED <<envVars, mode, pc, facadeVars, msgs, input, response, err, replVars>>

\* Update(streamDoneMsg)
TuiDone ==
  /\ mode = "tui"
  /\ pc = "run"
  /\ progq # <<>>
  /\ Head(progq).type = "done"
  /\ loading' = FALSE
  /\ messages' = IF Head(progq).err # NoErr
                 THEN DoneFailed(messages, Head(progq).err)
                 ELSE Append(messages, AssistantMsg(currentStream))
  /\ currentStream' = ""
  /\ progq' = Tail(progq)
  /\ UNCHANGED <<envVars, mode, pc, facadeVars, calls, msgs, input, response, err, replVars>>

\* Update(KeyCtrlC / KeyEsc): tea.Quit
TuiQuit ==
  /\ mode = "tui"
  /\ pc = "run"
  /\ pc' = "exit"
  /\ UNCHANGED <<envVars, mode, facadeVars, calls, turnVars, replVars, tuiVars>>

\* ------------------------------------------------------------ the sessions
\* RunSessionREPL / RunSessionTUI with a provider created by main.
Init ==
  /\ mode \in {"repl", "tui"}
  /\ pc = IF mode = "repl" THEN "read" ELSE "run"
  /\ providerName \in SessionProviders
  /\ calls = <<>>
  /\ InitCommon

Next ==
  \/ \E c \in DOMAIN calls : CallStep(c)
  \/ ReplEmptyLine
  \/ ReplEOF
  \/ ReplCommand
  \/ ReplSubmit
  \/ \E c \in DOMAIN calls : QuerySend(c)
  \/ ReplRecv
  \/ ReplJoin
  \/ SpinSelect
  \/ SpinPaint
  \/ SpinWake
  \/ TuiEnter
  \/ \E c \in DOMAIN calls : TuiCmdStart(c)
  \/ \E c \in DOMAIN calls : TuiCmdDone(c)
  \/ TuiChunk
  \/ TuiDone
  \/ TuiQuit

Spec == Init /\ [][Next]_vars

\* The sessions with the REPL's /model command.
NextSwitch == Next \/ ReplModel

SpecSwitch == Init /\ [][NextSwitch]_vars

\* ------------------------------------------------------ the client timeout
\* The streaming call's client: secureHTTPClient() (Timeout 120 s, header
\* timeout 60 s) for the typed-event backend, &http.Client{} (no timeout) for
\* the others.
ClientTimeout(prov) == prov = "claude"

\* The client's timer expires: client.Do fails, or the read of the body
\* fails, and the call returns the wrapped error.
CallTimeout(c) ==
  /\ Running
  /\ calls[c].st \in {"sent", "reading"}
  /\ ClientTimeout(calls[c].prov)
  /\ calls' = [calls EXCEPT ![c] =
                 Returned(calls[c], IF calls[c].st = "sent" THEN SendErr ELSE ReadErr)]
  /\ UNCHANGED <<envVars, mode, pc, facadeVars, turnVars, replVars, tuiVars>>

\* The steps that do not wait for the backend.
OwnStep ==
  \/ \E c \in DOMAIN calls : CallTimeout(c)
  \/ \E c \in DOMAIN calls : QuerySend(c)
  \/ ReplRecv
  \/ ReplJoin
  \/ SpinSelect
  \/ SpinPaint
  \/ SpinWake
  \/ \E c \in DOMAIN calls : TuiCmdStart(c)
  \/ \E c \in DOMAIN calls : TuiCmdDone(c)
  \/ TuiChunk
  \/ TuiDone

NextStall == Next \/ \E c \in DOMAIN calls : CallTimeout(c)

\* The sessions against a backend that may stop answering at any point:
\* only the program's own steps are fair.
SpecStall == Init /\ [][NextStall]_vars /\ WF_vars(OwnStep)

\* ---------------------------------------------- the turn, by statement
\* The sessions again, one step per statement that locks, unlocks or
\* touches the history or the streamed text.  The activities are "main"
\* (RunSessionREPL), "loop" (the event loop running Update) and the
\* goroutine of the call ("query" or "cmd").
Locks == {"mu", "streamMu"}

\* An access to a shared field, with the locks its activity holds.
Access(var, op, by) ==
  [var |-> var, op |-> op, by |-> by, locks |-> {l \in Locks : held[l] = by}]

\* The handlers that call refreshViewport.
Tags == {"enter", "cmd", "chunk", "done"}

\* mu.Lock() / streamMu.Lock(): where, which lock, and the statement after.
LockSteps ==
  { [at |-> "lockAppend", lock |-> "mu", by |-> "main", to |-> "append"],
    [at |-> "lockRollback", lock |-> "mu", by |-> "main", to |-> "rollback"],
    [at |-> "lockCommit", lock |-> "mu", by |-> "main", to |-> "commit"],
    [at |-> "lockClear", lock |-> "mu", by |-> "main", to |-> "clear"],
    [at |-> "chunkLock", lock |-> "streamMu", by |-> "loop", to |-> "chunkAdd"],
    [at |-> "doneLock", lock |-> "streamMu", by |-> "loop", to |-> "doneRead"] }
  \cup { [at |-> "rvLock." \o t, lock |-> "streamMu", by |-> "loop", to |-> "rvRead." \o t] :
           t \in Tags }

\* A loop body that calls queryWithSpinner before it unlocks.
AfterSnapshot_Query == "query"

\* The statement after the snapshot: session.mu.Unlock().
AfterSnapshot == "unlockAppend"

\* mu.Unlock() / streamMu.Unlock(): where, which lock, and the statement after.
UnlockSteps ==
  { [at |-> "unlockAppend", lock |-> "mu", to |-> "query"],
    [at |-> "unlockRollback", lock |-> "mu", to |-> "read"],
    [at |-> "unlockCommit", lock |-> "mu", to |-> "read"],
    [at |-> "unlockClear", lock |-> "mu", to |-> "read"],
    [at |-> "chunkUnlock", lock |-> "streamMu", to |-> "rv.chunk"],
    [at |-> "doneUnlock", lock |-> "streamMu", to |-> "doneAppend"] }
  \cup { [at |-> "rvUnlock." \o t, lock |-> "streamMu", to |-> "ret." \o t] : t \in Tags }

StmtLock ==
  /\ \E s \in LockSteps :
       /\ pc = s.at
       /\ held[s.lock] = "none"
       /\ held' = [held EXCEPT ![s.lock] = s.by]
       /\ pc' = s.to
  /\ acc' = {}
  /\ UNCHANGED <<sigChan, geometry, mode, facadeVars, calls, turnVars, replVars, tuiVars>>

StmtUnlock ==
  /\ \E s \in UnlockSteps :
       /\ pc = s.at
       /\ held[s.lock] # "none"
       /\ held' = [held EXCEPT ![s.lock] = "none"]
       /\ pc' = s.to
  /\ acc' = {}
  /\ UNCHANGED <<sigChan, geometry, mode, facadeVars, calls, turnVars, replVars, tuiVars>>

\* scanner.Scan() and the dispatch on the line: a clear command, an exit
\* command, or a message.
StmtReadLine ==
  /\ mode = "repl"
  /\ pc = "read"
  /\ Len(messages) + 2 <= MaxMsgs
  /\ \E line \in Inputs \cup {"/clear", "/exit"} :
       /\ input' = line
       /\ pc' = CASE line = "/clear" -> "lockClear"
                  [] line = "/exit" -> "exit"
                  [] OTHER -> "lockAppend"
  /\ acc' = {}
  /\ UNCHANGED <<sigChan, geometry, held, mode, facadeVars, calls, messages, msgs, response,
                 err, replVars, tuiVars>>

\* session.messages = append(session.messages, ...)
StmtAppend ==
  /\ pc = "append"
  /\ messages' = Append(messages, UserMsg(input))
  /\ acc' = {Access("messages", "read", "main"), Access("messages", "write", "main")}
  /\ pc' = "snapshot"
  /\ UNCHANGED <<sigChan, geometry, held, mode, facadeVars, calls, msgs, input, response, err,
                 replVars, tuiVars>>

\* msgs := make(...); copy(msgs, session.messages)
StmtSnapshot ==
  /\ pc = "snapshot"
  /\ msgs' = Snapshot(messages)
  /\ acc' = {Access("messages", "read", "main")}
  /\ pc' = AfterSnapshot
  /\ UNCHANGED <<sigChan, geometry, held, mode, facadeVars, calls, messages, input, response,
                 err, replVars, tuiVars>>

\* queryWithSpinner up to the receive: the query goroutine and the spinner
\* goroutine are started.
StmtQuery ==
  /\ pc = "query"
  /\ calls' = Append(calls, NewCall(provider.name, msgs, "buf"))
  /\ resultChan' = <<>>
  /\ done' = FALSE
  /\ spin' = "select"
  /\ frame' = 0
  /\ pc' = "wait"
  /\ acc' = {}
  /\ UNCHANGED <<sigChan, geometry, held, mode, facadeVars, turnVars, indicator, tuiVars>>

\* wg.Wait() and the test of err.
StmtJoin ==
  /\ mode = "repl"
  /\ pc = "join"
  /\ SpinnerJoined
  /\ pc' = IF err # NoErr THEN "lockRollback" ELSE "lockCommit"
  /\ acc' = {}
  /\ UNCHANGED <<sigChan, geometry, held, mode, facadeVars, calls, turnVars, replVars, tuiVars>>

\* The statement of a critical section of the loop body or of /clear.
StmtHistory ==
  /\ pc \in {"rollback", "commit", "clear"}
  /\ messages' = CASE pc = "rollback" -> Rollback(messages)
                   [] pc = "commit" -> Commit(messages, response)
                   [] OTHER -> <<>>
  /\ acc' = IF pc = "clear" THEN {Access("messages", "write", "main")}
            ELSE {Access("messages", "read", "main"), Access("messages", "write", "main")}
  /\ pc' = CASE pc = "rollback" -> "unlockRollback"
             [] pc = "commit" -> "unlockCommit"
             [] OTHER -> "unlockClear"
  /\ UNCHANGED <<sigChan, geometry, held, mode, facadeVars, calls, msgs, input, response, err,
                 replVars, tuiVars>>

\* Update(KeyEnter) up to refreshViewport: a clear command, or the user
\* message with loading and the reset of the streamed text.
StmtKeyEnter ==
  /\ mode = "tui"
  /\ pc = "run"
  /\ ~loading
  /\ Len(messages) + 2 <= MaxMsgs
  /\ \E in \in Inputs \cup {"/clear"} :
       /\ input' = in
       /\ IF in = "/clear"
          THEN /\ messages' = <<SystemMsg("Conversation cleared.")>>
               /\ acc' = {Access("messages", "write", "loop")}
               /\ pc' = "rv.cmd"
               /\ UNCHANGED <<loading, currentStream>>
          ELSE /\ messages' = Append(messages, UserMsg(in))
               /\ loading' = TRUE
               /\ currentStream' = ""
               /\ acc' = {Access("messages", "read", "loop"),
                          Access("messages", "write", "loop"),
                          Access("currentStream", "write", "loop")}
               /\ pc' = "rv.enter"
  /\ UNCHANGED <<sigChan, geometry, held, mode, facadeVars, calls, msgs, response, err,
                 replVars, progq>>

\* refreshViewport's loop over m.messages and its test of m.loading.
StmtRvMessages ==
  /\ \E t \in Tags :
       /\ pc = "rv." \o t
       /\ pc' = IF loading THEN "rvLock." \o t ELSE "ret." \o t
  /\ acc' = {Access("messages", "read", "loop")}
  /\ UNCHANGED <<sigChan, geometry, held, mode, facadeVars, calls, turnVars, replVars, tuiVars>>

\* content := m.currentStream in refreshViewport
StmtRvRead ==
  /\ \E t \in Tags :
       /\ pc = "rvRead." \o t
       /\ pc' = "rvUnlock." \o t
  /\ acc' = {Access("currentStream", "read", "loop")}
  /\ UNCHANGED <<sigChan, geometry, held, mode, facadeVars, calls, turnVars, replVars, tuiVars>>

\* Update returns; after KeyEnter with a message the streaming command is
\* handed to the runtime.
StmtReturn ==
  /\ \E t \in Tags :
       /\ pc = "ret." \o t
       /\ calls' = IF t = "enter"
                   THEN Append(calls, [NewCall(provider.name, <<>>, "prog") EXCEPT !.st = "cmd"])
                   ELSE calls
  /\ pc' = "run"
  /\ acc' = {}
  /\ UNCHANGED <<sigChan, geometry, held, mode, facadeVars, turnVars, replVars, tuiVars>>

\* The streaming command's loop over m.messages, in its own goroutine.
StmtCmdStart(c) ==
  /\ mode = "tui"
  /\ Running
  /\ calls[c].st = "cmd"
  /\ calls' = [calls EXCEPT ![c] =
                 [@ EXCEPT !.st = "sent", !.msgs = ChatOnly(messages),
                           !.req = RequestMessages(ChatOnly(messages))]]
  /\ acc' = {Access("messages", "read", "cmd")}
  /\ UNCHANGED <<sigChan, geometry, held, mode, pc, facadeVars, turnVars, replVars, tuiVars>>

\* Update receives the next message of the program: a fragment or the end.
StmtReceive ==
  /\ mode = "tui"
  /\ pc = "run"
  /\ progq # <<>>
  /\ IF Head(progq).type = "chunk"
     THEN /\ pc' = "chunkLock"
          /\ acc' = {}
          /\ UNCHANGED <<messages, err, loading, progq>>
     ELSE /\ loading' = FALSE
          /\ err' = Head(progq).err
          /\ progq' = Tail(progq)
          /\ IF Head(progq).err # NoErr
             THEN /\ messages' = DoneFailed(messages, Head(progq).err)
                  /\ acc' = {Access("messages", "read", "loop"),
                             Access("messages", "write", "loop")}
                  /\ pc' = "doneReset"
             ELSE /\ messages' = messages
                  /\ acc' = {}
                  /\ pc' = "doneLock"
  /\ UNCHANGED <<sigChan, geometry, held, mode, facadeVars, calls, msgs, input, response,
                 replVars, currentStream>>

\* m.currentStream += string(msg)
StmtChunkAdd ==
  /\ pc = "chunkAdd"
  /\ currentStream' = currentStream \o Head(progq).text
  /\ progq' = Tail(progq)
  /\ acc' = {Access("currentStream", "read", "loop"), Access("currentStream", "write", "loop")}
  /\ pc' = "chunkUnlock"
  /\ UNCHANGED <<sigChan, geometry, held, mode, facadeVars, calls, turnVars, replVars, loading>>

\* The rest of Update(streamDoneMsg): content := m.currentStream, the append
\* of the assistant message, m.currentStream = "".
StmtDone ==
  /\ pc \in {"doneRead", "doneAppend", "doneReset"}
  /\ response' = IF pc = "doneRead" THEN currentStream ELSE response
  /\ messages' = IF pc = "doneAppend" THEN Commit(messages, response) ELSE messages
  /\ currentStream' = IF pc = "doneReset" THEN "" ELSE currentStream
  /\ acc' = CASE pc = "doneRead" -> {Access("currentStream", "read", "loop")}
              [] pc = "doneAppend" -> {Access("messages", "read", "loop"),
                                       Access("messages", "write", "loop")}
              [] OTHER -> {Access("currentStream", "write", "loop")}
  /\ pc' = CASE pc = "doneRead" -> "doneUnlock"
             [] pc = "doneAppend" -> "doneReset"
             [] OTHER -> "rv.done"
  /\ UNCHANGED <<sigChan, geometry, held, mode, facadeVars, calls, msgs, input, err, replVars,
                 loading, progq>>

NextLock ==
  \/ StmtLock
  \/ StmtUnlock
  \/ StmtReadLine
  \/ StmtAppend
  \/ StmtSnapshot
  \/ StmtQuery
  \/ \E c \in DOMAIN calls : CallStep(c)
  \/ \E c \in DOMAIN calls : QuerySend(c)
  \/ ReplRecv
  \/ SpinSelect
  \/ SpinPaint
  \/ SpinWake
  \/ StmtJoin
  \/ StmtHistory
  \/ StmtKeyEnter
  \/ StmtRvMessages
  \/ StmtRvRead
  \/ StmtReturn
  \/ \E c \in DOMAIN calls : StmtCmdStart(c)
  \/ \E c \in DOMAIN calls : TuiCmdDone(c)
  \/ StmtReceive
  \/ StmtChunkAdd
  \/ StmtDone

SpecLock == Init /\ [][NextLock]_vars

\* ------------------------------------------------------------- the resize
headerHeight == 3
inputHeight == 3

\* The terminal sizes of a tea.WindowSizeMsg.
Widths == {40, 80}
Heights == {5, 24}

\* Update(tea.WindowSizeMsg): width and height are stored, the viewport is
\* created (first message) or resized, the textarea gets the width less 2.
Layout(w, h) ==
  LET vpHeight == h - headerHeight - inputHeight - 2 IN
  [width |-> w, height |-> h, ready |-> TRUE, vpWidth |-> w,
   vpHeight |-> IF vpHeight < 1 THEN 1 ELSE vpHeight, taWidth |-> w - 2]

\* A resize handler that also starts the streamed text over.
TuiResize_Resets ==
  /\ mode = "tui"
  /\ pc = "run"
  /\ \E w \in Widths, h \in Heights : geometry' = Layout(w, h)
  /\ currentStream' = ""
  /\ UNCHANGED <<sigChan, held, acc, mode, pc, facadeVars, calls, turnVars, replVars,
                 loading, progq>>

\* Update(tea.WindowSizeMsg) with refreshViewport, which only reads.
TuiResize ==
  /\ mode = "tui"
  /\ pc = "run"
  /\ \E w \in Widths, h \in Heights : geometry' = Layout(w, h)
  /\ currentStream' = currentStream
  /\ UNCHANGED <<sigChan, held, acc, mode, pc, facadeVars, calls, turnVars, replVars,
                 loading, progq>>

NextResize == Next \/ TuiResize

SpecResize == Init /\ [][NextResize]_vars

\* ------------------------------------------------------------ the signal
\* os.Interrupt or SIGTERM is delivered: signal.Notify puts it into sigChan
\* unless the channel (capacity 1) is full.
Signal ==
  /\ mode = "repl"
  /\ Running
  /\ ~sigChan
  /\ sigChan' = TRUE
  /\ UNCHANGED <<geometry, held, acc, mode, pc, facadeVars, calls, turnVars, replVars, tuiVars>>

\* A handler that lets a turn in flight finish before it exits.
SignalExit_WhenIdle ==
  /\ mode = "repl"
  /\ pc = "read"
  /\ sigChan
  /\ sigChan' = FALSE
  /\ pc' = "exit"
  /\ UNCHANGED <<geometry, held, acc, mode, facadeVars, calls, turnVars, replVars, tuiVars>>

\* The handler goroutine: <-sigChan, the farewell, os.Exit(0).
SignalExit ==
  /\ mode = "repl"
  /\ Running
  /\ sigChan
  /\ sigChan' = FALSE
  /\ pc' = "exit"
  /\ UNCHANGED <<geometry, held, acc, mode, facadeVars, calls, turnVars, replVars, tuiVars>>

NextSignal == Next \/ Signal \/ SignalExit

SpecSignal == Init /\ [][NextSignal]_vars

\* The handler goroutine is scheduled once it can receive.
SpecSignalLive == SpecSignal /\ WF_vars(SignalExit)

\* ------------------------------------------------------------ raw input
\* The lines as typed, in pieces: blanks, tabs and words.
RawLines ==
  { <<>>, <<" ">>, <<"\t", " ">>, <<"hi">>, <<" ", "hi", " ">>, <<"yo", "\t">>,
    <<"/clear">>, <<" ", "/help", " ">>, <<"/exit">>, <<"/bogus">> }

IsSpace(piece) == piece \in {" ", "\t"}

RECURSIVE TrimLeft(_)
TrimLeft(raw) ==
  IF raw # <<>> /\ IsSpace(Head(raw)) THEN TrimLeft(Tail(raw)) ELSE raw

RECURSIVE TrimRight(_)
TrimRight(raw) ==
  IF raw # <<>> /\ IsSpace(raw[Len(raw)]) THEN TrimRight(Front(raw)) ELSE raw

\* strings.TrimSpace
TrimSpace(raw) == Join(TrimRight(TrimLeft(raw)))

\* A loop body without the test for the empty line: the trimmed line is
\* appended and sent whatever it is.
ReplLine_NoEmptyTest(raw) ==
  LET in == TrimSpace(raw) IN
  IF in = ""
  THEN /\ mode = "repl"
       /\ pc = "read"
       /\ Len(messages) + 2 <= MaxMsgs
       /\ input' = in
       /\ messages' = Append(messages, UserMsg(in))
       /\ msgs' = Snapshot(messages')
       /\ calls' = Append(calls, NewCall(provider.name, msgs', "buf"))
       /\ resultChan' = <<>>
       /\ done' = FALSE
       /\ spin' = "select"
       /\ frame' = 0
       /\ pc' = "wait"
       /\ UNCHANGED <<envVars, mode, facadeVars, response, err, indicator, tuiVars>>
  ELSE IF in \in ReplCommands
       THEN ReplCommand /\ input' = in
       ELSE ReplSubmit /\ input' = in

\* The loop body from the scanned line on: TrimSpace, the test for the
\* empty line, the test for the command marker, else a turn.
ReplLine(raw) ==
  LET in == TrimSpace(raw) IN
  IF in = ""
  THEN ReplEmptyLine
  ELSE IF in \in ReplCommands
       THEN ReplCommand /\ input' = in
       ELSE ReplSubmit /\ input' = in

\* Update(KeyEnter) with the textarea's value as typed.
TuiKeyEnter(raw) ==
  /\ TrimSpace(raw) \in Inputs \cup TuiCommands \cup {""}
  /\ TuiEnter
  /\ EnterAccepted => input' = TrimSpace(raw)

NextInput ==
  \/ \E c \in DOMAIN calls : CallStep(c)
  \/ \E raw \in RawLines : ReplLine(raw)
  \/ ReplEOF
  \/ \E c \in DOMAIN calls : QuerySend(c)
  \/ ReplRecv
  \/ ReplJoin
  \/ SpinSelect
  \/ SpinPaint
  \/ SpinWake
  \/ \E raw \in RawLines : TuiKeyEnter(raw)
  \/ \E c \in DOMAIN calls : TuiCmdStart(c)
  \/ \E c \in DOMAIN calls : TuiCmdDone(c)
  \/ TuiChunk
  \/ TuiDone
  \/ TuiQuit

\* The sessions fed with lines as typed.
SpecInput == Init /\ [][NextInput]_vars

\* The steps that need no key press: the goroutines of a turn and the event
\* loop's handling of the messages sent to it.
Progress ==
  \/ \E c \in DOMAIN calls : CallStep(c)
  \/ \E c \in DOMAIN calls : QuerySend(c)
  \/ ReplRecv
  \/ ReplJoin
  \/ SpinSelect
  \/ SpinPaint
  \/ SpinWake
  \/ \E c \in DOMAIN calls : TuiCmdStart(c)
  \/ \E c \in DOMAIN calls : TuiCmdDone(c)
  \/ TuiChunk
  \/ TuiDone

\* ================================================================ claims
IsReturned(c) == calls[c].st = "returned"
Non2xx(statusCode) == statusCode # 0 /\ ~(statusCode \in 200..299)

\* C3: for every typed-event stream and every way of splitting its bytes
\* into reads, the typed-event parser writes the fragments it writes when
\* the same bytes arrive in one read.  (The claim as stated; the parser
\* keeps no remainder between reads, so a read that ends inside a line
\* loses that line.)
C3_ChunkBoundaryInvariance ==
  \A c \in DOMAIN calls :
    (ChunkReader(calls[c].prov) /\ IsReturned(c) /\ calls[c].status = StatusOK
       /\ ~calls[c].broken)
      => calls[c].sink = ClaudeChunk(calls[c].body)

\* C7: a call answered with a non-2xx status returns an error and has
\* written nothing to its writer, whatever the provider and the body.
C7_Non2xxWritesNothing ==
  \A c \in DOMAIN calls :
    (IsReturned(c) /\ Non2xx(calls[c].status))
      => (calls[c].err # NoErr /\ calls[c].sink = <<>>)

\* C7 witness: a 401 answer whose body holds a data line has been turned
\* into an error with an empty sink.
C7_Witness ==
  \E c \in DOMAIN calls :
    /\ IsReturned(c)
    /\ calls[c].status = 401
    /\ Len(calls[c].body) > 1
    /\ calls[c].err # NoErr
    /\ calls[c].sink = <<>>

\* C8: for every provider, 401 yields the auth error, 402 the billing error,
\* 429 the rate-limit error, and any other non-2xx status the generic error
\* with the status code and the raw body.  (The claim as stated.)
C8_StatusClassification ==
  \A c \in DOMAIN calls :
    (IsReturned(c) /\ Non2xx(calls[c].status))
      => CASE calls[c].status = 401 -> calls[c].err.kind = "auth"
           [] calls[c].status = 402 -> calls[c].err.kind = "billing"
           [] calls[c].status = 429 -> calls[c].err.kind = "rate"
           [] OTHER -> calls[c].err = [kind |-> "api", status |-> calls[c].status,
                                       body |-> calls[c].body]

\* A stream of data lines with valid payloads, sentinels and lines without
\* the marker.
WellFormed(body) ==
  \A k \in DOMAIN Split(body) :
    LET line == Split(body)[k]
    IN HasPrefix(line) =>
         (TrimPrefix(line) = <<Sentinel>> \/ ValidJSON(TrimPrefix(line)))

\* The delta payload a line carries.
DeltaPayload(line) ==
  IF HasPrefix(line) /\ ValidJSON(TrimPrefix(line)) /\ TrimPrefix(line)[2] = "choice"
  THEN TextOf(TrimPrefix(line))
  ELSE ""

RECURSIVE PayloadsBeforeSentinel(_)
PayloadsBeforeSentinel(lines) ==
  IF lines = <<>> \/ Head(lines) = DoneLine THEN ""
  ELSE DeltaPayload(Head(lines)) \o PayloadsBeforeSentinel(Tail(lines))

\* C10: when a line-delimited parser has read a well-formed stream without a
\* transport failure, its fragments concatenated are the delta payloads of
\* the data lines before the sentinel line, concatenated; nothing of the
\* sentinel line or of a later line is written.
C10_LineDelimitedConcat ==
  \A c \in DOMAIN calls :
    (~ChunkReader(calls[c].prov) /\ IsReturned(c) /\ calls[c].status = StatusOK
       /\ ~calls[c].broken /\ WellFormed(calls[c].body))
      => Concat(calls[c].sink) = PayloadsBeforeSentinel(Split(calls[c].body))

\* C10 witness: a stream with a delta after the sentinel has been read to its
\* return and the delta was not written.
C10_Witness ==
  \E c \in DOMAIN calls :
    /\ ~ChunkReader(calls[c].prov)
    /\ IsReturned(c)
    /\ ~calls[c].broken
    /\ calls[c].body = FlatLines(<<Delta("choice", <<"b", "c">>), DoneLine,
                                   Delta("choice", <<"a">>)>>)
    /\ calls[c].sink = <<"bc">>

\* ------------------------------------------------------- session claims
\* The blocking session is back at its prompt and the line it read last was
\* a turn (not a command): input, msgs, response and err are that turn's.
LastWasTurn == mode = "repl" /\ pc = "read" /\ input \in Inputs

UserCount(history, text) ==
  Cardinality({k \in DOMAIN history : history[k] = UserMsg(text)})

C1_AfterTurn ==
  LastWasTurn =>
    /\ msgs # <<>>
    /\ msgs[Len(msgs)] = UserMsg(input)
    /\ (err # NoErr => messages = Front(msgs))
    /\ (err = NoErr =>
          UserCount(messages, input) = UserCount(Front(msgs), input) + 1)

C1_RetryStep ==
  (LastWasTurn /\ err # NoErr /\ pc' = "wait" /\ input' = input)
    => (msgs' = msgs /\ messages' = msgs)

\* C1: in the blocking session, after a turn whose call returned an error the
\* history is the history before the turn (the turn's snapshot without its
\* last entry, the user message); a retry of the same input then sends the
\* very sequence the failed turn sent, and when a turn succeeds the history
\* holds one more user message with that input than before the turn.
C1_RollbackThenRetry == []C1_AfterTurn /\ [][C1_RetryStep]_vars

\* C1 witness: a second turn failed after a first one succeeded, and the
\* history is back to its two entries.
C1_Witness ==
  /\ LastWasTurn
  /\ err # NoErr
  /\ Len(msgs) = 3
  /\ messages = Front(msgs)

\* The fragments a backend emitted on a stream: the non-empty delta texts of
\* its data lines, in order.
RECURSIVE Emitted(_)
Emitted(lines) ==
  IF lines = <<>> THEN <<>>
  ELSE LET line == Head(lines)
           data == TrimPrefix(line)
       IN (IF HasPrefix(line) /\ ValidJSON(data) /\ data[2] \in {"cbd", "choice"}
              /\ TextOf(data) # ""
           THEN <<TextOf(data)>>
           ELSE <<>>) \o Emitted(Tail(lines))

RECURSIVE IsSubseq(_, _)
IsSubseq(a, b) ==
  IF a = <<>> THEN TRUE
  ELSE IF b = <<>> THEN FALSE
       ELSE IF Head(a) = Head(b) THEN IsSubseq(Tail(a), Tail(b))
            ELSE IsSubseq(a, Tail(b))

C2_Order ==
  \A c \in DOMAIN calls :
    mode = "repl" => IsSubseq(calls[c].sink, Emitted(Split(calls[c].body)))

C2_Commit ==
  (LastWasTurn /\ err = NoErr) =>
    /\ msgs # <<>>
    /\ msgs[Len(msgs)] = UserMsg(input)
    /\ messages = Append(msgs, AssistantMsg(response))

C2_SendStep ==
  \A c \in DOMAIN calls :
    (mode = "repl" /\ IsReturned(c) /\ Len(resultChan') = Len(resultChan) + 1)
      => resultChan'[Len(resultChan')].response = Concat(calls[c].sink)

C2_RecvStep ==
  (mode = "repl" /\ pc = "wait" /\ pc' = "join")
    => response' = Head(resultChan).response

\* C2: in the blocking session the writes to a turn's buffer follow the order
\* of the backend's fragments; the result sent by the query goroutine is the
\* concatenation of that turn's writes, it is what the loop receives, and on
\* success the history is the turn's snapshot, ending with the turn's user
\* message, followed by the assistant message with exactly that text.
C2_OrderedFragmentsCommitted ==
  [](C2_Order /\ C2_Commit) /\ [][C2_SendStep /\ C2_RecvStep]_vars

\* C2 witness: a turn streamed "a" then "bc" and [user, assistant "abc"] is
\* the history.
C2_Witness ==
  /\ LastWasTurn
  /\ err = NoErr
  /\ response = "abc"
  /\ messages = <<UserMsg(input), AssistantMsg("abc")>>

RoleCount(history, role) ==
  Cardinality({k \in DOMAIN history : history[k].role = role})

\* C4: in the event-loop session a failed turn's user message is removed:
\* when no turn is loading every user message of the history has its
\* assistant reply, and a sequence sent to the backend holds exactly one
\* user message without a reply, the new input.  (The claim as stated; the
\* stream-done handler appends an error entry and removes nothing.)
C4_TuiRollback ==
  /\ (mode = "tui" /\ ~loading)
       => RoleCount(messages, "user") = RoleCount(messages, "assistant")
  /\ \A c \in DOMAIN calls :
       (mode = "tui" /\ calls[c].st # "cmd")
         => RoleCount(calls[c].msgs, "user") = RoleCount(calls[c].msgs, "assistant") + 1

DoneCount == Cardinality({k \in DOMAIN progq : progq[k].type = "done"})

\* A turn's call or its undelivered outcome.
TurnsInFlight == Len(calls) + Len(resultChan) + DoneCount

\* C5: in both session forms at most one streaming call, or outcome not yet
\* processed, exists at any time, and it exists only while the session is in
\* its Querying state (the loop blocked on the result, or loading set).
C5_OneTurnInFlight ==
  /\ TurnsInFlight <= 1
  /\ TurnsInFlight = 1 => IF mode = "repl" THEN pc = "wait" ELSE loading

\* C5 witness: the event-loop session is reading the stream of its second
\* turn.
C5_Witness ==
  /\ mode = "tui"
  /\ loading
  /\ Len(calls) = 1
  /\ calls[1].st = "reading"
  /\ RoleCount(messages, "user") = 2

\* C6: when the blocking session is at its prompt, queryWithSpinner has
\* returned only after the call delivered its outcome and the spinner
\* goroutine saw the closed done channel, erased the line and ended; the
\* spinner paints only while the loop is inside queryWithSpinner.
C6_SpinnerStoppedBeforeReturn ==
  mode = "repl" =>
    /\ pc \in {"read", "exit"} =>
         (spin \in {"none", "exited"} /\ ~indicator /\ calls = <<>> /\ resultChan = <<>>)
    /\ spin \in {"select", "paint", "sleep"} => pc \in {"wait", "join"}
    /\ pc = "join" => (done /\ calls = <<>>)

\* C6 witness: a turn is over, a frame was painted during it, and the line
\* is erased.
C6_Witness ==
  /\ LastWasTurn
  /\ spin = "exited"
  /\ frame >= 1
  /\ ~indicator

\* C9: a call whose transport failed returns an error, also when fragments
\* were written before the failure; and after a turn that ended in an error
\* the blocking session's history is the turn's snapshot without the user
\* message: no assistant message was appended.
C9_NoSuccessAfterReadError ==
  /\ \A c \in DOMAIN calls :
       (IsReturned(c) /\ calls[c].broken) => calls[c].err # NoErr
  /\ (LastWasTurn /\ err # NoErr) =>
       (messages = Front(msgs) /\ RoleCount(messages, "user") = RoleCount(messages, "assistant"))

\* C9 witness: a turn ended in a read error after a fragment had reached the
\* buffer, and no assistant message was appended.
C9_Witness ==
  /\ LastWasTurn
  /\ err.kind = "read"
  /\ response # ""
  /\ messages = Front(msgs)

\* ------------------------------------------------------- C11: malformed JSON
\* A data line that is not the sentinel and whose payload is not one object.
Malformed(line) ==
  HasPrefix(line) /\ TrimPrefix(line) # <<Sentinel>> /\ ~ValidJSON(TrimPrefix(line))

RECURSIVE BeforeSentinel(_)
\* The lines in front of the first sentinel line.
BeforeSentinel(lines) ==
  IF lines = <<>> \/ Head(lines) = DoneLine THEN <<>>
  ELSE <<Head(lines)>> \o BeforeSentinel(Tail(lines))

\* Position pos of a body is the start of a line.
AtLineStart(body, pos) == pos = 0 \/ body[pos] = NL

C11_ScanSkips ==
  \A c \in DOMAIN calls :
    (IsReturned(c) /\ calls[c].status = StatusOK /\ ~calls[c].broken)
      => /\ calls[c].err = NoErr
         /\ ~ChunkReader(calls[c].prov)
              => calls[c].sink = Emitted(BeforeSentinel(Split(calls[c].body)))

C11_ChunkStep ==
  \A c \in DOMAIN calls :
    (/\ Len(calls') = Len(calls)
     /\ ChunkReader(calls[c].prov)
     /\ calls[c].st = "reading"
     /\ calls'[c].pos > calls[c].pos
     /\ AtLineStart(calls[c].body, calls[c].pos)
     /\ AtLineStart(calls[c].body, calls'[c].pos))
      => /\ calls'[c].st = "reading"
         /\ calls'[c].sink = calls[c].sink
              \o Emitted(Split(SubSeq(calls[c].body, calls[c].pos + 1, calls'[c].pos)))

\* C11: a data line whose payload is not valid JSON writes nothing, does not
\* end the stream and does not change the outcome: a line-delimited call that
\* read its stream without a transport failure returns nil and has written
\* the fragments of all the other lines before the sentinel, in order; a read
\* of whole lines by the typed-event parser writes the fragments of the other
\* lines of that read, in order, and the loop goes on.
C11_MalformedLineSkipped == []C11_ScanSkips /\ [][C11_ChunkStep]_vars

\* C11 witness: a line-delimited stream with a truncated object between two
\* deltas was read to its end; both deltas were written and the call
\* returned nil.
C11_Witness ==
  \E c \in DOMAIN calls :
    /\ ~ChunkReader(calls[c].prov)
    /\ IsReturned(c)
    /\ calls[c].err = NoErr
    /\ \E k \in DOMAIN Split(calls[c].body) : Malformed(Split(calls[c].body)[k])
    /\ calls[c].body = FlatLines(<<Delta("choice", <<"a">>),
                                   <<Dat, Colon, "{", "choice", "a">>,
                                   Delta("choice", <<"b", "c">>)>>)
    /\ calls[c].sink = <<"a", "bc">>

\* ---------------------------------------------------- C12: typed-event filter
\* A data line that carries a content-delta event with a non-empty text.
IsContentDelta(line) ==
  /\ Len(line) >= 6
  /\ SubSeq(line, 1, 4) = <<Dat, Colon, "{", "cbd">>
  /\ line[Len(line)] = "}"
  /\ \A j \in 5..(Len(line) - 1) : line[j] \in Chars

RECURSIVE ContentDeltas(_)
\* The texts of the content-delta lines, in order.
ContentDeltas(lines) ==
  IF lines = <<>> THEN <<>>
  ELSE (IF IsContentDelta(Head(lines))
        THEN <<Concat(SubSeq(Head(lines), 5, Len(Head(lines)) - 1))>>
        ELSE <<>>) \o ContentDeltas(Tail(lines))

C12_OnlyDeltasWritten ==
  \A c \in DOMAIN calls :
    ChunkReader(calls[c].prov)
      => /\ IsSubseq(calls[c].sink, ContentDeltas(Split(calls[c].body)))
         /\ \A k \in DOMAIN calls[c].sink : calls[c].sink[k] # ""

C12_ReadStep ==
  \A c \in DOMAIN calls :
    (/\ Len(calls') = Len(calls)
     /\ ChunkReader(calls[c].prov)
     /\ calls[c].st = "reading"
     /\ calls'[c].pos > calls[c].pos)
      => /\ calls'[c].st = "reading"
         /\ (AtLineStart(calls[c].body, calls[c].pos)
                /\ AtLineStart(calls[c].body, calls'[c].pos))
              => calls'[c].sink = calls[c].sink
                   \o ContentDeltas(Split(SubSeq(calls[c].body, calls[c].pos + 1,
                                                 calls'[c].pos)))

\* C12: in the typed-event parser every fragment in the sink is the non-empty
\* text of a content-delta event of the stream, in stream order; a read never
\* ends the stream, whatever its lines are, and a read of whole lines writes
\* the texts of its content-delta events and nothing for an event of another
\* type, a delta with empty text or a line without the data marker.
C12_TypedEventFilter == []C12_OnlyDeltasWritten /\ [][C12_ReadStep]_vars

\* C12 witness: a stream with an event of another type carrying text, a line
\* without the marker and one content delta was read to its end, and only
\* the delta was written.
C12_Witness ==
  \E c \in DOMAIN calls :
    /\ ChunkReader(calls[c].prov)
    /\ IsReturned(c)
    /\ calls[c].err = NoErr
    /\ calls[c].body = FlatLines(<<Delta("evt", <<"c">>), <<"event">>,
                                   Delta("cbd", <<"a">>)>>)
    /\ calls[c].sink = <<"a">>

\* ------------------------------------------------------------ C13: clear
\* The step of a clear command: the line read is "/clear".
ClearStep == input' = "/clear" /\ (input # "/clear" \/ messages' # messages)

\* The step that submits a turn as the first input after a clear command.
TurnAfterClearStep == input = "/clear" /\ input' \in Inputs

ClearedNotice == SystemMsg("Conversation cleared.")

C13_Clear ==
  ClearStep
    => /\ ChatOnly(messages') = <<>>
       /\ mode = "repl" => messages' = <<>>
       /\ calls' = <<>>
       /\ pc' = pc
       /\ loading' = FALSE

C13_TurnAfterClear ==
  TurnAfterClearStep
    => /\ ChatOnly(messages') = <<UserMsg(input')>>
       /\ Len(calls') = 1
       /\ mode = "repl" => calls'[1].msgs = <<UserMsg(input')>>

C13_Request ==
  \A c \in DOMAIN calls :
    (mode = "tui" /\ messages = <<ClearedNotice, UserMsg(input)>> /\ calls[c].st # "cmd")
      => calls[c].msgs = <<UserMsg(input)>>

\* C13: a clear command (accepted only when no turn is in flight) leaves no
\* user or assistant message in the history (the blocking session's list is
\* empty, the event-loop session's list holds only the notice of the clear)
\* and starts no call; the turn submitted next hands the backend exactly one
\* message, the new user input, in both session forms.
C13_ClearThenOneMessage ==
  []C13_Request /\ [][C13_Clear /\ C13_TurnAfterClear]_vars

\* C13 witness: the blocking session answered a first turn with "abc", the
\* history was cleared, and the call of the next turn is out with the new
\* input as its only message.
C13_Witness ==
  /\ mode = "repl"
  /\ pc = "wait"
  /\ response = "abc"
  /\ err = NoErr
  /\ messages = <<UserMsg(input)>>
  /\ Len(calls) = 1
  /\ calls[1].msgs = <<UserMsg(input)>>

\* --------------------------------------------------------- C14: snapshot
\* A step that changes the history without starting a turn: the commit of a
\* reply, a rollback, a clear, an entry added by a command.
HistoryChangeStep == messages' # messages /\ Len(calls') <= Len(calls)

C14_SnapshotKept == HistoryChangeStep => msgs' = msgs

C14_RequestKept ==
  \A c \in DOMAIN calls :
    (Len(calls') = Len(calls) /\ calls[c].st # "cmd")
      => calls'[c].msgs = calls[c].msgs

C14_RequestIsCopy ==
  \A c \in DOMAIN calls :
    /\ mode = "repl" => calls[c].msgs = msgs
    /\ (mode = "tui" /\ calls[c].st # "cmd")
         => (calls[c].msgs = ChatOnly(messages) /\ loading)

RECURSIVE PendingText(_)
\* The fragments sent to the program and not handled yet, concatenated.
PendingText(q) ==
  IF q = <<>> THEN ""
  ELSE (IF Head(q).type = "chunk" THEN Head(q).text ELSE "") \o PendingText(Tail(q))

\* The text of the turn so far: what was handled and what is pending.
Arrived == currentStream \o PendingText(progq)

ChunkCount(q) == Cardinality({k \in DOMAIN q : q[k].type = "chunk"})

C15_Order ==
  mode = "tui" =>
    /\ \A i, j \in DOMAIN progq :
         (i < j /\ progq[i].type = "done") => progq[j].type # "chunk"
    /\ \A c \in DOMAIN calls :
         calls[c].st # "cmd" => Arrived = Concat(calls[c].sink)

C15_AfterReturn ==
  (mode = "tui" /\ loading /\ loading' /\ calls' = <<>>) => Arrived' = Arrived

C15_DoneStep ==
  (mode = "tui" /\ loading /\ ~loading')
    => /\ Head(progq).type = "done"
       /\ ChunkCount(progq) = 0
       /\ currentStream' = ""
       /\ Head(progq).err = NoErr
            => messages' = Append(messages, AssistantMsg(Arrived))

\* C15: in the event-loop session no fragment event follows the stream-done
\* event of its turn; the text handled plus the text pending is, at every
\* moment of a call, the concatenation of the fragments the call wrote, in
\* order, and stays so after the call returned; the stream-done handler runs
\* with no fragment pending, on no error appends the assistant message with
\* exactly that text, and leaves the current-streaming-text field empty.
C15_StreamDoneCommits ==
  []C15_Order /\ [][C15_AfterReturn /\ C15_DoneStep]_vars

\* C15 witness: a turn of the event-loop session streamed "a" and "bc" and
\* its stream-done event was handled.
C15_Witness ==
  /\ mode = "tui"
  /\ ~loading
  /\ currentStream = ""
  /\ progq = <<>>
  /\ messages = <<UserMsg(input), AssistantMsg("abc")>>

\* --------------------------------------------- C16: Enter while loading
\* The stream-done event is being handled.
DoneHandled == progq # <<>> /\ Head(progq).type = "done" /\ progq' = Tail(progq)

\* A fragment event is being handled.
ChunkHandled == progq # <<>> /\ Head(progq).type = "chunk" /\ progq' = Tail(progq)

C16_WhileLoading ==
  (mode = "tui" /\ loading)
    => /\ input' = input
       /\ providerName' = providerName
       /\ Len(calls') <= Len(calls)
       /\ \A c \in DOMAIN calls' : calls'[c].st # "cmd" \/ calls[c].st = "cmd"
       /\ messages' # messages => DoneHandled
       /\ loading' # loading => DoneHandled
       /\ currentStream' # currentStream => (DoneHandled \/ ChunkHandled)
       /\ pc' # pc => (pc' = "exit" /\ messages' = messages)

\* C16: while a turn of the event-loop session is in flight no step reads a
\* new input, dispatches a command, appends a message or starts a call: the
\* history and the loading flag change only when the stream-done event is
\* handled, the streaming text only when a fragment or the stream-done event
\* is handled, the bound provider never, and only a quit key ends the
\* session; so an Enter pressed meanwhile changes nothing.
C16_EnterRejectedWhileLoading == [][C16_WhileLoading]_vars

\* C16 witness: a turn is streaming (a fragment has been shown) while the
\* Enter handler can run.
C16_Witness ==
  /\ mode = "tui"
  /\ pc = "run"
  /\ loading
  /\ Len(messages) + 2 <= MaxMsgs
  /\ currentStream # ""
  /\ Len(calls) = 1
  /\ calls[1].st = "reading"

\* ----------------------------------------------------- C17: full history
\* The conversation: the user and assistant messages of the history.
Conversation == IF mode = "repl" THEN messages ELSE ChatOnly(messages)

C17_RequestIsConversation ==
  \A c \in DOMAIN calls :
    (mode \in {"repl", "tui"} /\ calls[c].st # "cmd")
      => /\ calls[c].req = Conversation
         /\ calls[c].req # <<>>
         /\ calls[c].req[Len(calls[c].req)] = UserMsg(input)

C17_SubmitStep ==
  (mode = "repl" /\ pc = "read" /\ pc' = "wait")
    => /\ Len(calls') = 1
       /\ calls'[1].req = Append(messages, UserMsg(input'))

C17_StartStep ==
  \A c \in DOMAIN calls :
    (mode = "tui" /\ calls[c].st = "cmd" /\ Len(calls') = Len(calls)
       /\ calls'[c].st # "cmd")
      => /\ calls'[c].req = ChatOnly(messages)
         /\ messages[Len(messages)] = UserMsg(input)
         /\ calls'[c].req = Append(ChatOnly(Front(messages)), UserMsg(input))

\* C17: the message list of every request is the whole conversation at that
\* moment: when a turn is submitted, all user and assistant messages the
\* history held before, in their order, followed by the new user message;
\* and while the call is in flight it still equals the conversation.
C17_FullHistorySent ==
  []C17_RequestIsConversation /\ [][C17_SubmitStep /\ C17_StartStep]_vars

\* C17 witness: the request of a second turn is out with the first turn's
\* user message and reply in front of the new user message.
C17_Witness ==
  \E c \in DOMAIN calls :
    /\ calls[c].st = "sent"
    /\ Len(calls[c].req) = 3
    /\ calls[c].req[1].role = "user"
    /\ calls[c].req[2] = AssistantMsg("abc")
    /\ calls[c].req[3] = UserMsg(input)

\* ======================================================= model discovery
ListProviders == Providers \cup {"gemini"}

ModelInfo(id, name, description) ==
  [ID |-> id, Name |-> name, Description |-> description]

getFallbackClaudeModels ==
  << ModelInfo("claude-3-5-sonnet-20241022", "Claude 3.5 Sonnet",
               "Balanced intelligence and speed"),
     ModelInfo("claude-3-5-haiku-20241022", "Claude 3.5 Haiku", "Fast and efficient"),
     ModelInfo("claude-3-opus-20240229", "Claude 3 Opus", "Most capable"),
     ModelInfo("claude-3-sonnet-20240229", "Claude 3 Sonnet", "Balanced performance") >>

getFallbackDeepSeekModels ==
  << ModelInfo("deepseek-chat", "DeepSeek Chat", "General purpose chat model"),
     ModelInfo("deepseek-reasoner", "DeepSeek Reasoner", "Advanced reasoning model") >>

getFallbackMistralModels ==
  << ModelInfo("mistral-large-latest", "Mistral Large", "Most capable model"),
     ModelInfo("mistral-small-latest", "Mistral Small", "Fast and efficient"),
     ModelInfo("codestral-latest", "Codestral", "Code generation"),
     ModelInfo("ministral-8b-latest", "Ministral 8B", "Lightweight model") >>

getFallbackChatGPTModels ==
  << ModelInfo("gpt-4o", "GPT-4o", "Most capable multimodal model"),
     ModelInfo("gpt-4o-mini", "GPT-4o Mini", "Fast and affordable"),
     ModelInfo("gpt-4-turbo", "GPT-4 Turbo", "Advanced reasoning"),
     ModelInfo("o1-preview", "o1 Preview", "Reasoning model"),
     ModelInfo("o1-mini", "o1 Mini", "Lightweight reasoning") >>

getFallbackGeminiModels ==
  << ModelInfo("gemini-2.5-flash", "Gemini 2.5 Flash", "Fast and versatile"),
     ModelInfo("gemini-2.5-pro", "Gemini 2.5 Pro", "Advanced reasoning"),
     ModelInfo("gemini-2.0-flash", "Gemini 2.0 Flash", "Previous generation fast model"),
     ModelInfo("gemini-flash-latest", "Gemini Flash Latest", "Latest Flash release") >>

FallbackModels(prov) ==
  CASE prov = "claude" -> getFallbackClaudeModels
    [] prov = "deepseek" -> getFallbackDeepSeekModels
    [] prov = "mistral" -> getFallbackMistralModels
    [] prov = "chatgpt" -> getFallbackChatGPTModels
    [] OTHER -> getFallbackGeminiModels

\* strings.Contains(id, sub), an id being a sequence of pieces.
Contains(id, sub) == \E k \in DOMAIN id : id[k] = sub

\* An entry of a discovery answer: the id in pieces, a display name, the
\* description and the generation methods (the SDK backend's entries).
Entry(id, methods) ==
  [id |-> id, display |-> "D", description |-> "d", methods |-> methods]

Entries ==
  { Entry(<<"gpt", "-4o">>, <<"embedContent", "generateContent">>),
    Entry(<<"o1", "-mini">>, <<"embedContent">>),
    Entry(<<"dall-e">>, <<>>) }

EntryLists == UNION { [1..n -> Entries] : n \in 0..MaxModels }

\* Whether ListModels goes through the SDK client and its iterator.
SDKBackend(prov) == prov = "gemini"

Outcome(fail, status, data, seen) ==
  [fail |-> fail, status |-> status, data |-> data, seen |-> seen]

\* What may happen to a discovery request that was built: it cannot be sent,
\* it is answered with another status than 200, with a body that does not
\* decode, or with a list of entries; the SDK's iterator hands over seen
\* entries and then reports iterator.Done or the failure of a page request.
ListOutcomes(prov) ==
  IF SDKBackend(prov)
  THEN { Outcome(f, 0, d, k) : f \in {"done", "iter"}, d \in EntryLists, k \in 0..MaxModels }
         \ { o \in { Outcome(f, 0, d, k) :
                        f \in {"done", "iter"}, d \in EntryLists, k \in 0..MaxModels } :
                o.seen > Len(o.data) \/ (o.fail = "done" /\ o.seen # Len(o.data)) }
  ELSE { Outcome("send", 0, <<>>, 0), Outcome("decode", StatusOK, <<>>, 0) }
         \cup { Outcome("none", st, <<>>, 0) : st \in {204, 401, 500} }
         \cup { Outcome("none", StatusOK, d, Len(d)) : d \in EntryLists }

RECURSIVE HTTPModels(_, _)
\* The loop over result.Data: one ModelInfo per entry; the ChatGPT provider
\* keeps the ids that contain "gpt" or "o1".
HTTPModels(prov, data) ==
  IF data = <<>> THEN <<>>
  ELSE LET m == Head(data)
           kept == prov = "chatgpt" => (Contains(m.id, "gpt") \/ Contains(m.id, "o1"))
           name == IF prov = "claude" THEN m.display ELSE Concat(m.id)
       IN (IF kept THEN <<ModelInfo(Concat(m.id), name, "")>> ELSE <<>>)
            \o HTTPModels(prov, Tail(data))

RECURSIVE SDKModels(_)
\* The iterator loop: the entries that support generateContent.
SDKModels(data) ==
  IF data = <<>> THEN <<>>
  ELSE LET m == Head(data)
       IN (IF \E k \in DOMAIN m.methods : m.methods[k] = "generateContent"
           THEN <<ModelInfo(Concat(m.id), m.display, m.description)>>
           ELSE <<>>) \o SDKModels(Tail(data))

\* GeminiProvider.ListModels after the client was created: iter.Next() until
\* it returns an error (iterator.Done or any other), then the fallback when
\* nothing was collected.
SDKListResult(o) ==
  LET models == SDKModels(SubSeq(o.data, 1, o.seen))
  IN IF Len(models) = 0 THEN getFallbackGeminiModels ELSE models

\* ListModels of the HTTP providers after the request was built.
HTTPListResult(prov, o) ==
  IF o.fail = "send" THEN FallbackModels(prov)
  ELSE IF o.status # StatusOK THEN FallbackModels(prov)
  ELSE IF o.fail = "decode" THEN FallbackModels(prov)
  ELSE IF Len(o.data) = 0 THEN FallbackModels(prov)
  ELSE LET models == HTTPModels(prov, o.data)
       IN IF prov = "chatgpt" /\ Len(models) = 0 THEN FallbackModels(prov) ELSE models

ListResult(prov, o) ==
  IF SDKBackend(prov) THEN SDKListResult(o) ELSE HTTPListResult(prov, o)

ListCall(prov, st, o, models) ==
  [prov |-> prov, st |-> st, outcome |-> o, models |-> models, err |-> NoErr]

\* prov.ListModels() is called: the request (the SDK client) is built, or
\* cannot be built and the fallback list is returned with a nil error.
ListModelsCall ==
  /\ mode = "list"
  /\ pc = "wait"
  /\ calls = <<>>
  /\ \E built \in BOOLEAN :
       calls' = IF built
                THEN <<ListCall(providerName, "sent", Outcome("none", 0, <<>>, 0), <<>>)>>
                ELSE <<ListCall(providerName, "returned", Outcome("build", 0, <<>>, 0),
                                FallbackModels(providerName))>>
  /\ UNCHANGED <<envVars, mode, pc, facadeVars, turnVars, replVars, tuiVars>>

\* The discovery request is answered and ListModels returns.
ListModelsRespond ==
  /\ mode = "list"
  /\ pc = "wait"
  /\ Len(calls) = 1
  /\ calls[1].st = "sent"
  /\ \E o \in ListOutcomes(providerName) :
       calls' = <<ListCall(providerName, "returned", o, ListResult(providerName, o))>>
  /\ UNCHANGED <<envVars, mode, pc, facadeVars, turnVars, replVars, tuiVars>>

\* The caller prints the list and goes on.
ListModelsDone ==
  /\ mode = "list"
  /\ pc = "wait"
  /\ Len(calls) = 1
  /\ calls[1].st = "returned"
  /\ pc' = "exit"
  /\ UNCHANGED <<envVars, mode, facadeVars, calls, turnVars, replVars, tuiVars>>

InitList ==
  /\ mode = "list"
  /\ pc = "wait"
  /\ providerName \in ListProviders
  /\ calls = <<>>
  /\ InitCommon

NextList == ListModelsCall \/ ListModelsRespond \/ ListModelsDone

SpecList == InitList /\ [][NextList]_vars

\* ------------------------------------------------------ C18: ListModels
\* The discovery call failed: the request could not be built or sent, the
\* status was not a success, the body did not decode, a page request of the
\* iterator failed, or no entry came back.
DiscoveryFailed(o) ==
  \/ o.fail \in {"build", "send", "decode", "iter"}
  \/ Non2xx(o.status)
  \/ (o.fail \in {"none", "done"} /\ Len(o.data) = 0)

\* C18: ListModels of every backend returns a nil error and a non-empty
\* list, and whenever the discovery call failed the list is exactly the
\* backend's fallback list.  (The claim as stated; the SDK backend's loop
\* leaves at any iterator error and returns the entries collected so far.)
C18_ListModelsFallback ==
  \A c \in DOMAIN calls :
    (mode = "list" /\ IsReturned(c))
      => /\ calls[c].err = NoErr
         /\ calls[c].models # <<>>
         /\ DiscoveryFailed(calls[c].outcome)
              => calls[c].models = FallbackModels(calls[c].prov)

\* ------------------------------------------------------- C19: no retry
\* The step that submits a turn: a line that is not empty and not a command
\* is read while no turn is in flight.
SubmitStep ==
  /\ input' \in Inputs
  /\ IF mode = "repl" THEN pc = "read" /\ pc' = "wait" ELSE ~loading /\ loading'

C19_OneRequestPerSubmit ==
  /\ SubmitStep => Len(calls') = Len(calls) + 1
  /\ Len(calls') > Len(calls) => SubmitStep
  /\ \A c \in DOMAIN calls :
       (Len(calls') = Len(calls) /\ calls'[c].st \in {"cmd", "sent"})
         => calls[c].st \in {"cmd", calls'[c].st}

C19_IdleAfterError ==
  /\ (LastWasTurn /\ err # NoErr) => (calls = <<>> /\ resultChan = <<>>)
  /\ (mode = "tui" /\ ~loading) => (calls = <<>> /\ DoneCount = 0)

\* C19: a call is created only by the step that submits a turn, which
\* creates exactly one; a call that left the state in which its request is
\* sent never returns to it; and once a turn ended in an error no call exists
\* until the next submission.
C19_OneRequestPerTurn ==
  []C19_IdleAfterError /\ [][C19_OneRequestPerSubmit]_vars

\* C19 witness: the event-loop session is idle after a turn that failed; the
\* error is shown and no call exists.
C19_Witness ==
  /\ mode = "tui"
  /\ pc = "run"
  /\ ~loading
  /\ messages # <<>>
  /\ messages[Len(messages)].role = "error"
  /\ messages[Len(messages)].content \in {"Error: send", "Error: auth", "Error: read"}
  /\ calls = <<>>
  /\ progq = <<>>

\* ---------------------------------------------- C20: usable after an error
Idle == IF mode = "repl" THEN pc = "read" ELSE pc = "run" /\ ~loading

\* A turn's call has returned an error that the session has not handled yet.
ErrorPending ==
  \/ \E c \in DOMAIN calls : IsReturned(c) /\ calls[c].err # NoErr
  \/ \E k \in DOMAIN resultChan : resultChan[k].err # NoErr
  \/ \E k \in DOMAIN progq : progq[k].type = "done" /\ progq[k].err # NoErr
  \/ (mode = "repl" /\ pc = "join" /\ err # NoErr)

\* The step in which the session handles the error of a turn.
ErrorHandledStep == ErrorPending /\ ~ErrorPending'

C20_HandledToIdle ==
  (ErrorHandledStep /\ pc' # "exit" /\ Len(calls') <= Len(calls))
    => (Idle' /\ calls' = <<>> /\ pc # "exit")

C20_ErrorKeepsSession ==
  (ErrorPending /\ pc' = "exit") => (mode = "tui" /\ UNCHANGED <<messages, loading>>)

\* Until the session is back in Idle after an error, a goroutine of the turn
\* or the event loop can take a step without any key press; and in Idle the
\* next line can be read.
C20_NotStuck ==
  /\ ((ErrorPending \/ (mode = "repl" /\ pc = "join")) /\ pc # "exit")
       => ENABLED <<Progress>>_vars
  /\ (Idle /\ mode = "repl") => ENABLED <<ReplCommand>>_vars
  /\ (Idle /\ Len(messages) + 2 <= MaxMsgs)
       => ENABLED <<ReplSubmit \/ TuiEnter>>_vars

\* C20: an error outcome never leaves the session stuck in Querying (a step
\* towards handling it is always possible); the step that handles it puts
\* the session in Idle with no call left, where the next input is read; and
\* the session never ends in a step that handles an error, only by a quit
\* key pressed meanwhile.
C20_UsableAfterError ==
  []C20_NotStuck /\ [][C20_HandledToIdle /\ C20_ErrorKeepsSession]_vars

\* C20 witness: in the event-loop session a turn failed, the next input was
\* submitted and answered.
C20_Witness ==
  /\ mode = "tui"
  /\ ~loading
  /\ Len(messages) = 4
  /\ messages[2].role = "error"
  /\ messages[3].role = "user"
  /\ messages[4] = AssistantMsg("abc")

\* ================================================== reporting a failed turn
\* The text of an error is a sequence of pieces; the phrases the session
\* looks for are whole pieces, so strings.Contains is Contains on pieces.
\* What the transport reports when a request cannot be sent or a read fails.
Causes ==
  { <<"dial tcp: lookup api: no such host">>,
    <<"context deadline exceeded">>,
    <<"dial tcp [2a04:4e42::", "404", "]:443: i/o timeout">> }

\* Bodies of answers with a status other than 200.
ReportBodies ==
  { <<>>, <<"overloaded">>, <<"model ", "not found">>, <<"The model ", "does not exist">>,
    <<"invalid_model">> }

\* err.Error() of the error a streaming call returned: the fmt.Errorf formats
\* of the providers and of HandleAPIError.
ErrorText(prov, e, cause) ==
  CASE e.kind = "send" -> <<"failed to send request: ">> \o cause
    [] e.kind = "read" -> <<"error reading stream: ">> \o cause
    [] e.kind = "auth" -> <<"[!] Invalid API key for ", prov, ". Check your config.yaml">>
    [] e.kind = "billing" ->
         <<"[!] Insufficient balance/credits for ", prov,
           ". Please add funds to your account">>
    [] e.kind = "rate" ->
         <<"[!] Rate limit exceeded for ", prov, ". Please wait and try again">>
    [] OTHER -> <<"API error (status ", ToString(e.status), "): ">> \o e.body

\* The test of the loop's error branch: the text looks like a missing model.
LooksLikeModelNotFound(errStr) ==
  \/ Contains(errStr, "404")
  \/ Contains(errStr, "not found")
  \/ Contains(errStr, "does not exist")
  \/ Contains(errStr, "Invalid model")
  \/ Contains(errStr, "invalid_model")

\* What the error branch prints: the model-not-found lines or the error.
ReportOf(errStr) == IF LooksLikeModelNotFound(errStr) THEN "model not found" ELSE "error"

FailedCall(prov, e, cause) ==
  [prov |-> prov, st |-> "returned", err |-> e, cause |-> cause]

\* The failed calls a turn may end with.
FailedCalls(prov) ==
  { FailedCall(prov, e, c) : e \in {SendErr, ReadErr}, c \in Causes }
    \cup { FailedCall(prov, StatusError(prov, st, b), <<>>) :
             st \in Statuses, b \in ReportBodies }

\* The error branch of the loop: the error is reported and the loop goes
\* back to the prompt.
ReportError ==
  /\ mode = "report"
  /\ pc = "join"
  /\ err' = calls[1].err
  /\ response' = ReportOf(ErrorText(calls[1].prov, calls[1].err, calls[1].cause))
  /\ pc' = "read"
  /\ UNCHANGED <<envVars, mode, facadeVars, calls, messages, msgs, input, replVars, tuiVars>>

\* queryWithSpinner has returned an error.
InitReport ==
  /\ mode = "report"
  /\ pc = "join"
  /\ providerName \in SessionProviders
  /\ \E f \in FailedCalls(providerName) : calls = <<f>>
  /\ InitCommon

NextReport == ReportError

SpecReport == InitReport /\ [][NextReport]_vars

\* ------------------------------------------------- C21: model-not-found hint
\* C21: the blocking session prints the model-not-found hint only for a turn
\* whose error is the generic API error; a transport error (request not
\* sent, read failed), the authentication, billing and rate-limit errors are
\* printed as plain errors.  (The claim as stated; the test is applied to
\* the text of every error, also to what the transport reported.)
C21_HintOnlyForGenericAPIError ==
  (mode = "report" /\ pc = "read")
    => /\ response = "model not found" => err.kind = "api"
       /\ err.kind \in {"send", "read", "auth", "billing", "rate"} => response = "error"

\* ------------------------------------------------- C22: commands in Idle
\* The lines of the /model command.
ModelCommands == {ModelCommand(spec) : spec \in ModelSpecs}

\* A command dispatched while the session is Idle.
CommandStep ==
  /\ Idle
  /\ \/ ReplCommand
     \/ ReplModel
     \/ TuiEnter /\ input' \in TuiCommands

\* The steps that read a line or handle the Enter key.
InputStep == ReplEmptyLine \/ ReplEOF \/ ReplCommand \/ ReplModel \/ ReplSubmit \/ TuiEnter

C22_CommandEffect ==
  CommandStep
    => /\ calls' = calls
       /\ Conversation' \in {Conversation, <<>>}
       /\ Conversation' # Conversation => input' = "/clear"
       /\ IF input' = "/exit" THEN pc' = "exit" ELSE Idle'
       /\ loading' = loading

C22_ExitIsTerminal == pc = "exit" => ~ENABLED <<InputStep>>_vars

\* C22: a command dispatched in Idle starts no backend call and appends no
\* user or assistant message; the session is Idle afterwards, except after
\* the exit command, which ends it so that no later input is processed; the
\* user and assistant messages of the history change only by the clear
\* command.
C22_CommandsKeepIdle == []C22_ExitIsTerminal /\ [][C22_CommandEffect]_vars

\* C22 witness: after an answered turn the blocking session switched to the
\* deepseek provider by /model; it is Idle with the two messages of the turn.
C22_Witness ==
  /\ mode = "repl"
  /\ pc = "read"
  /\ input = "/model deepseek"
  /\ providerName = "deepseek"
  /\ Len(messages) = 2
  /\ calls = <<>>

\* ------------------------------------------------ C23: /model resolution
\* The default models a provider can get: the config's model or the fallback.
DefaultsOf(name) ==
  {defaultModels[name]} \cup
    {config.Providers[name].Model :
       config \in {c \in LoadConfigSafe : ~c.err /\ name \in DOMAIN c.Providers
                                             /\ c.Providers[name].Model # <<>>}}

\* The selection stated for each form of the argument.
Selects(spec, prov, model) ==
  IF Len(spec) = 1 /\ spec[1] \in knownProviders
  THEN prov = spec[1] /\ model \in DefaultsOf(spec[1])
  ELSE IF IndexSlash(spec) > 0
       THEN /\ prov = Join(SubSeq(spec, 1, IndexSlash(spec) - 1))
            /\ model = SubSeq(spec, IndexSlash(spec) + 1, Len(spec))
       ELSE /\ model = spec
            /\ prov = IF ResolveProviderFromModel(spec) # ""
                      THEN ResolveProviderFromModel(spec)
                      ELSE providerName

C23_Switch ==
  \A spec \in ModelSpecs :
    (ReplModel /\ input' = ModelCommand(spec) /\ facadeVars' # facadeVars)
      => Selects(spec, providerName', modelName')

\* C23: a /model command that switches selects, for a bare known provider
\* name, that provider with its default model; for provider/model, exactly
\* that provider and exactly that model; for a plain model name, that model
\* on the provider of its prefix, or on the current provider when no prefix
\* is known.
C23_ModelResolution == [][C23_Switch]_vars

\* --------------------------------------------- C24: the facade's triple
\* The facade is the one constructed for the session's two names.
C24_Bound ==
  mode \in {"repl", "tui"}
    => /\ provider # NilProvider
       /\ provider = createProvider(providerName, modelName)

\* The /model lines that return early whatever the config is.
FailingModelCommands ==
  {ModelCommand(<<>>), ModelCommand(<<"chatgpt">>), ModelCommand(<<"ollama", "/", "llama", "-3">>)}

\* The blocking session reads a line at the prompt.
LineRead == mode = "repl" /\ pc = "read"

C24_Change ==
  /\ (provider' # provider \/ providerName' # providerName \/ modelName' # modelName)
       => /\ LineRead
          /\ input' \in ModelCommands
          /\ provider' # provider
          /\ provider' = createProvider(providerName', modelName')
  /\ (LineRead /\ input' \in FailingModelCommands) => UNCHANGED facadeVars

\* C24: the facade, the provider name and the model name of a session change
\* only in a /model step, which installs a newly constructed facade bound to
\* the new names; a /model command without argument or for a provider that
\* is not configured or not known changes none of them, and neither does any
\* other step.
C24_FacadeChangesTogether == []C24_Bound /\ [][C24_Change]_vars

\* C24 witness: after /model deepseek with a config that names a model for
\* it, a turn of the blocking session is in flight on the new facade.
C24_Witness ==
  /\ mode = "repl"
  /\ pc = "wait"
  /\ provider = [name |-> "deepseek", model |-> <<"deepseek", "-coder">>]
  /\ providerName = "deepseek"
  /\ modelName = <<"deepseek", "-coder">>
  /\ \E c \in DOMAIN calls : calls[c].prov = "deepseek"

\* ------------------------------------------------------ C25: the signal
C25_Leads == (mode = "repl" /\ sigChan) ~> (pc = "exit")

C25_Handled == SignalExit => (pc' = "exit" /\ messages' = messages /\ input' = input)

\* No step is taken once the process has exited.
C25_Exited == pc = "exit" => UNCHANGED vars

\* C25: in the blocking session a signal that has arrived, with the session
\* Idle or in a turn, leads to the exit of the process; the handler changes
\* neither the history nor the input, and after the exit nothing changes.
C25_SignalExits == C25_Leads /\ [][C25_Handled /\ C25_Exited]_vars

\* C25 witness: the process has exited by a signal while a turn was in
\* flight: the user message is in the history and the call is still out.
C25_Witness ==
  /\ mode = "repl"
  /\ pc = "exit"
  /\ ~sigChan
  /\ messages = <<UserMsg("hi")>>
  /\ \E c \in DOMAIN calls : calls[c].st = "sent"

\* ------------------------------------------------------ C26: the resize
\* A resize handled while a turn is in flight.
ResizeInFlight == TuiResize /\ loading

C26_Frame ==
  ResizeInFlight
    => /\ loading' = loading
       /\ currentStream' = currentStream
       /\ messages' = messages
       /\ calls' = calls
       /\ progq' = progq
       /\ pc' = pc
       /\ geometry'.ready
       /\ geometry'.vpWidth = geometry'.width
       /\ geometry'.vpHeight >= 1
       /\ geometry'.taWidth = geometry'.width - 2

\* C26: a resize handled while a turn is in flight sets the width, the
\* height and the sizes of the viewport and of the input and leaves the
\* loading flag, the streamed text, the history, the running call and the
\* events not yet handled as they are.
C26_ResizeKeepsTurn == [][C26_Frame]_vars

\* C26 witness: the window was resized to 40x5 while the answer was being
\* streamed: a fragment is shown, the call is still out.
C26_Witness ==
  /\ mode = "tui"
  /\ loading
  /\ currentStream # ""
  /\ geometry = Layout(40, 5)
  /\ \E c \in DOMAIN calls : calls[c].st \notin {"cmd", "sent"}

\* ------------------------------------------- C27: no lock across a call
\* The provider's streaming call c is executing.
InFlight(c) == calls[c].st \notin {"cmd", "returned"}

\* The goroutine that executes the call.
Caller == IF mode = "repl" THEN "query" ELSE "cmd"

\* The statements inside a critical section.
CriticalPcs ==
  {"append", "snapshot", "unlockAppend", "rollback", "unlockRollback", "commit",
   "unlockCommit", "clear", "unlockClear", "chunkAdd", "chunkUnlock", "doneRead",
   "doneUnlock"}
    \cup {"rvRead." \o t : t \in Tags} \cup {"rvUnlock." \o t : t \in Tags}

\* C27: while a provider call is executing, the goroutine executing it
\* holds neither lock, and the main goroutine of the blocking session, which
\* waits for the call, does not hold the conversation lock; a lock is held
\* only inside the append, snapshot, rollback, commit, clear, accumulate and
\* read-of-the-streamed-text statements.
C27_NoLockAcrossCall ==
  /\ \A c \in DOMAIN calls :
       InFlight(c) => /\ \A l \in Locks : held[l] # Caller
                      /\ held.mu = "none"
  /\ (\E l \in Locks : held[l] # "none") => pc \in CriticalPcs
  /\ pc = "wait" => \A l \in Locks : held[l] = "none"

\* C27 witness: the event loop holds the stream lock to add a fragment
\* while the call that produced it is still executing.
C27_Witness ==
  /\ mode = "tui"
  /\ pc = "chunkAdd"
  /\ held.streamMu = "loop"
  /\ \E c \in DOMAIN calls : InFlight(c)

\* ----------------------------------------- C28: the history under a lock
\* C28: every read and every write of the conversation history, in the
\* blocking and in the event-loop session, is made by an activity that holds
\* the conversation lock.
C28_HistoryUnderLock == \A a \in acc : a.var = "messages" => "mu" \in a.locks

\* The blocking session alone: its accesses to the history hold the lock.
C28_ReplUnderLock == mode = "repl" => C28_HistoryUnderLock

\* ------------------------------------ C29: the streamed text under a lock
\* C29: every read and every write of the current streaming text in the
\* event-loop session is made while holding the stream lock.
C29_StreamUnderLock ==
  mode = "tui" => \A a \in acc : a.var = "currentStream" => "streamMu" \in a.locks

\* The accesses other than the two resets of the text hold the lock.
C29_ExceptResets ==
  mode = "tui"
    => \A a \in acc : (a.var = "currentStream" /\ pc \notin {"rv.enter", "rv.done"})
                        => "streamMu" \in a.locks

\* --------------------------------------------- C30: a stalled backend
\* A turn is in flight.
Querying ==
  /\ Running
  /\ \/ mode = "repl" /\ pc \in {"wait", "join"}
     \/ mode = "tui" /\ loading

\* C30: whatever the backend does, never answering and stalling included, a
\* turn in flight comes to its end: the call returns and the session leaves
\* Querying.
C30_StalledCallReturns == Querying ~> ~Querying

\* The typed-event backend's sessions alone.
C30_ClaudeReturns == (Querying /\ providerName = "claude") ~> ~Querying

\* ------------------------------------------------- C31: roles of a request
Roles == {"user", "assistant"}

\* The call's request has been built from the history.
RequestBuilt(c) == calls[c].st # "cmd"

\* C31: every message of every request handed to a backend has role user or
\* assistant; the notices and error entries the event-loop session keeps in
\* its list are in no request.
C31_OnlyChatRolesSent ==
  mode \in {"repl", "tui"}
    => \A c \in DOMAIN calls :
         RequestBuilt(c) => \A k \in DOMAIN calls[c].req : calls[c].req[k].role \in Roles

\* C31 witness: the event-loop session's list holds the error entry of a
\* failed turn and the call of the next turn is out, with a request of two
\* messages.
C31_Witness ==
  /\ mode = "tui"
  /\ \E k \in DOMAIN messages : messages[k].role = "error"
  /\ \E c \in DOMAIN calls : RequestBuilt(c) /\ Len(calls[c].req) = 2

\* ------------------------------------------------------ C32: empty input
NoEmptyUser(list) == \A k \in DOMAIN list : list[k].role = "user" => list[k].content # ""

C32_NoEmptyUserMessage ==
  /\ NoEmptyUser(messages)
  /\ \A c \in DOMAIN calls : NoEmptyUser(calls[c].req) /\ NoEmptyUser(calls[c].msgs)

\* A line that is empty after trimming is handled.
BlankLineStep ==
  \E raw \in RawLines : TrimSpace(raw) = "" /\ (ReplLine(raw) \/ TuiKeyEnter(raw))

C32_BlankDropped ==
  BlankLineStep => UNCHANGED <<pc, calls, messages, msgs, response, err, loading,
                               currentStream, progq, resultChan, facadeVars>>

\* C32: no user message with empty content is in the history or in a
\* request, and a line that is empty once its blanks are trimmed changes
\* neither the history nor the calls nor the position of the session.
C32_EmptyInputDropped == []C32_NoEmptyUserMessage /\ [][C32_BlankDropped]_vars

\* C32 witness: after an answered turn a blank line was read at the prompt;
\* the session is Idle with the two messages of the turn and no call.
C32_Witness ==
  /\ mode = "repl"
  /\ pc = "read"
  /\ input = ""
  /\ Len(messages) = 2
  /\ calls = <<>>

\* ------------------------------------------------- provider resolution
\* The -model flag values, in pieces; <<>> is the flag not given.
ModelFlags ==
  { <<>>,
    <<"gpt", "-4o">>,
    <<"claude", "/", "claude", "-3-opus">>,
    <<"deepseek", "/", "gpt", "-4o">>,
    <<"/", "mistral", "-small">>,
    <<"ollama", "/">>,
    <<"llama", "-3">> }

ProviderFlags == {"", "claude", "mistral"}
ProfileFlags == {"", "fast", "local", "none"}

\* The config handed to the resolution: default provider, providers and
\* profiles (nil, or a map from profile name to a model spec).
ResolveConfigs ==
  { [DefaultProvider |-> "gemini",
     Providers |-> [p \in {"gemini", "claude"} |->
                      ProviderConfig(IF p = "gemini" THEN <<"gemini", "-2.5-pro">> ELSE <<>>)],
     ProfilesNil |-> TRUE,
     Profiles |-> <<>>],
    [DefaultProvider |-> "",
     Providers |-> [p \in {"claude"} |-> ProviderConfig(<<"claude", "-3-haiku">>)],
     ProfilesNil |-> FALSE,
     Profiles |-> [fast |-> <<"gemini", "/", "gemini", "-2.5-flash">>,
                   local |-> <<"llama", "-3">>]] }

\* &ProfileError{Name, Reason}
ProfileError(reason) == [ok |-> FALSE, provider |-> "", model |-> <<>>, reason |-> reason]

Resolved(prov, model) == [ok |-> TRUE, provider |-> prov, model |-> model, reason |-> ""]

\* A resolution that looks at the model spec before the provider flag.
ResolveModelAndProvider_SpecFirst(providerFlag, modelFlag, profileFlag, config) ==
  LET spec == ParseModelSpec(modelFlag)
      chosen == IF spec.provider # "" THEN spec.provider
                ELSE IF providerFlag # "" THEN providerFlag
                ELSE IF spec.model # <<>> THEN ResolveProviderFromModel(spec.model)
                ELSE ""
      prov == IF chosen = "" THEN config.DefaultProvider ELSE chosen
      model == IF spec.model # <<>> THEN spec.model
               ELSE IF prov # "" /\ prov \in DOMAIN config.Providers
                       /\ config.Providers[prov].Model # <<>>
                    THEN config.Providers[prov].Model
                    ELSE <<>>
  IN Resolved(prov, model)

\* ResolveModelAndProvider: the profile branch, then the provider by the
\* if-chain, the config default, and the model.
ResolveModelAndProvider(providerFlag, modelFlag, profileFlag, config) ==
  IF profileFlag # ""
  THEN IF config.ProfilesNil THEN ProfileError("no profiles defined in config")
       ELSE IF profileFlag \notin DOMAIN config.Profiles THEN ProfileError("profile not found")
       ELSE LET parsed == ParseModelSpec(config.Profiles[profileFlag])
                prov == IF parsed.provider = "" THEN ResolveProviderFromModel(parsed.model)
                        ELSE parsed.provider
            IN IF prov = "" THEN ProfileError("cannot determine provider from profile")
               ELSE Resolved(prov, parsed.model)
  ELSE
  LET spec == ParseModelSpec(modelFlag)
      chosen == IF providerFlag # "" THEN providerFlag
                ELSE IF spec.provider # "" THEN spec.provider
                ELSE IF spec.model # <<>> THEN ResolveProviderFromModel(spec.model)
                ELSE ""
      prov == IF chosen = "" THEN config.DefaultProvider ELSE chosen
      model == IF spec.model # <<>> THEN spec.model
               ELSE IF prov # "" /\ prov \in DOMAIN config.Providers
                       /\ config.Providers[prov].Model # <<>>
                    THEN config.Providers[prov].Model
                    ELSE <<>>
  IN Resolved(prov, model)

\* main calls the resolution with the flags and the loaded config; input
\* holds the arguments, response the result.
InitResolve ==
  /\ mode = "resolve"
  /\ pc = "start"
  /\ input \in [providerFlag : ProviderFlags, modelFlag : ModelFlags,
                profileFlag : ProfileFlags, config : ResolveConfigs]
  /\ response = ""
  /\ providerName = ""
  /\ modelName = <<>>
  /\ provider = NilProvider
  /\ calls = <<>>
  /\ messages = <<>>
  /\ msgs = <<>>
  /\ err = NoErr
  /\ resultChan = <<>>
  /\ done = FALSE
  /\ spin = "none"
  /\ frame = 0
  /\ indicator = FALSE
  /\ loading = FALSE
  /\ currentStream = ""
  /\ progq = <<>>
  /\ sigChan = FALSE
  /\ geometry = NoGeometry
  /\ held = [mu |-> "none", streamMu |-> "none"]
  /\ acc = {}

Resolve ==
  /\ mode = "resolve"
  /\ pc = "start"
  /\ LET r == ResolveModelAndProvider(input.providerFlag, input.modelFlag,
                                      input.profileFlag, input.config)
     IN /\ response' = r.reason
        /\ providerName' = r.provider
        /\ modelName' = r.model
        /\ err' = IF r.ok THEN NoErr ELSE [kind |-> "profile", status |-> 0, body |-> <<>>]
  /\ pc' = "done"
  /\ UNCHANGED <<envVars, mode, provider, calls, messages, msgs, input, replVars, tuiVars>>

NextResolve == Resolve

SpecResolve == InitResolve /\ [][NextResolve]_vars

\* ----------------------------------------------- C33: provider priority
\* The part of a -model value in front of its first "/".
ProviderPart(flag) ==
  IF IndexSlash(flag) > 0 THEN Join(SubSeq(flag, 1, IndexSlash(flag) - 1)) ELSE ""

\* The model name of a -model value.
ModelPart(flag) ==
  IF IndexSlash(flag) > 0 THEN SubSeq(flag, IndexSlash(flag) + 1, Len(flag)) ELSE flag

\* C33: called without a profile, the resolution returns no error and the
\* provider is the provider flag when given, else the provider part of the
\* model spec when it has one, else the provider detected from the model
\* name, else the config's default provider.
C33_ProviderPriority ==
  (mode = "resolve" /\ pc = "done" /\ input.profileFlag = "")
    => /\ err = NoErr
       /\ providerName =
            IF input.providerFlag # "" THEN input.providerFlag
            ELSE IF ProviderPart(input.modelFlag) # "" THEN ProviderPart(input.modelFlag)
            ELSE IF ResolveProviderFromModel(ModelPart(input.modelFlag)) # ""
                 THEN ResolveProviderFromModel(ModelPart(input.modelFlag))
                 ELSE input.config.DefaultProvider

\* C33 witness: the provider flag claude was given together with the model
\* spec deepseek/gpt-4o; the flag won over the spec's provider and over the
\* provider of the model's prefix.
C33_Witness ==
  /\ mode = "resolve"
  /\ pc = "done"
  /\ input.profileFlag = ""
  /\ input.providerFlag = "claude"
  /\ input.modelFlag = <<"deepseek", "/", "gpt", "-4o">>
  /\ providerName = "claude"
  /\ modelName = <<"gpt", "-4o">>

\* ------------------------------------------------- C34: alternating roles
\* user, assistant, user, assistant, ... starting with user.
Alternates(list) ==
  \A k \in DOMAIN list : list[k].role = IF k % 2 = 1 THEN "user" ELSE "assistant"

C34_IdleHistory ==
  (mode = "repl" /\ pc = "read") => (Len(messages) % 2 = 0 /\ Alternates(messages))

C34_Snapshot ==
  mode = "repl"
    => \A c \in DOMAIN calls :
         /\ Len(calls[c].msgs) % 2 = 1
         /\ Alternates(calls[c].msgs)
         /\ calls[c].msgs[Len(calls[c].msgs)] = UserMsg(input)
         /\ calls[c].req = calls[c].msgs

\* C34: whenever the blocking session is Idle its history has even length
\* and alternates user, assistant from the first entry on; every snapshot
\* handed to a backend has odd length, alternates the same way and ends with
\* the user message just read.
C34_HistoryAlternates == C34_IdleHistory /\ C34_Snapshot

\* C34 witness: the second turn of a blocking session is in flight with a
\* snapshot of three messages: the answered first turn and the new input.
C34_Witness ==
  /\ mode = "repl"
  /\ pc = "wait"
  /\ \E c \in DOMAIN calls : Len(calls[c].msgs) = 3 /\ calls[c].st = "sent"

\* ------------------------------------------------- C35: exactly status 200
\* The call has been answered with a status other than 200.
NotOK(c) == calls[c].status # 0 /\ calls[c].status # StatusOK

\* C35: a call writes fragments only when the status of the answer is 200;
\* with any other status, 204 and the other 2xx codes included, the call
\* has returned an error, has read no byte of the body as stream and has
\* written nothing.
C35_OnlyStatus200Streams ==
  \A c \in DOMAIN calls :
    /\ calls[c].sink # <<>> => calls[c].status = StatusOK
    /\ NotOK(c) => /\ IsReturned(c)
                   /\ calls[c].err # NoErr
                   /\ calls[c].pos = 0
                   /\ calls[c].sink = <<>>

\* C35 witness: an answer with status 204 whose body holds a data line with
\* a text fragment has been turned into an error; nothing was written.
C35_Witness ==
  \E c \in DOMAIN calls :
    /\ calls[c].status = 204
    /\ Len(calls[c].body) > 1
    /\ IsReturned(c)
    /\ calls[c].err # NoErr
    /\ calls[c].sink = <<>>

\* ------------------------------------------- C36: a reply without fragments
EmptyReply == [role |-> "assistant", content |-> ""]

\* The call of the turn returned nil after status 200 and wrote nothing.
ZeroFragmentSuccess(call) ==
  /\ call.st = "returned"
  /\ call.status = StatusOK
  /\ call.err = NoErr
  /\ call.sink = <<>>

\* The query goroutine hands such a call over as the empty string, no error.
C36_Sent ==
  (mode = "repl" /\ Len(calls) = 1 /\ calls' = <<>> /\ ZeroFragmentSuccess(calls[1]))
    => resultChan' = <<[response |-> "", err |-> NoErr]>>

\* queryWithSpinner takes the result as it is.
C36_Received ==
  (mode = "repl" /\ pc = "wait" /\ pc' = "join")
    => (response' = Head(resultChan).response /\ err' = Head(resultChan).err)

\* The loop body appends the assistant message, whatever its content.
C36_Appended ==
  (mode = "repl" /\ pc = "join" /\ pc' = "read" /\ err = NoErr /\ response = "")
    => messages' = Append(messages, EmptyReply)

\* Every request of the blocking session carries, at their positions, the
\* empty assistant messages the history holds.
C36_Replayed ==
  \A c \in DOMAIN calls :
    mode = "repl" =>
      \A k \in 1..Len(messages) :
        messages[k] = EmptyReply
          => (k <= Len(calls[c].req) /\ calls[c].req[k] = EmptyReply)

\* C36: when the call of a turn succeeds with status 200 and no fragment,
\* the blocking session appends an assistant message with empty content to
\* the history, and every later request carries that message.
C36_EmptyReplyKept ==
  /\ [][C36_Sent /\ C36_Received /\ C36_Appended]_vars
  /\ []C36_Replayed

\* C36 witness: the request of the second turn is in flight and its second
\* message is the empty assistant message the first turn left.
C36_Witness ==
  /\ mode = "repl"
  /\ Len(messages) = 3
  /\ messages[2] = EmptyReply
  /\ \E c \in DOMAIN calls :
       /\ calls[c].st = "sent"
       /\ Len(calls[c].req) = 3
       /\ calls[c].req[2] = EmptyReply

\* ------------------------------------ C37: streamed text only while loading
\* The stream-done event of the turn has not been handled yet: the streaming
\* command is still there or its streamDoneMsg is queued.
DonePending ==
  \/ calls # <<>>
  \/ \E k \in DOMAIN progq : progq[k].type = "done"

C37_EmptyWhenIdle ==
  mode = "tui" =>
    /\ ~loading => currentStream = ""
    /\ currentStream # "" => (loading /\ DonePending)

\* The field becomes non-empty at a fragment event and empty again at the
\* stream-done event.
C37_Edges ==
  mode = "tui" =>
    /\ (currentStream = "" /\ currentStream' # "")
         => (progq # <<>> /\ Head(progq).type = "chunk" /\ progq' = Tail(progq))
    /\ (currentStream # "" /\ currentStream' = "")
         => (progq # <<>> /\ Head(progq).type = "done" /\ ~loading')

\* C37: in the event-loop session the streamed text is empty in every state
\* where loading is false; it is non-empty only from a fragment event of a
\* turn to the stream-done event of that turn.
C37_StreamOnlyWhileLoading == []C37_EmptyWhenIdle /\ [][C37_Edges]_vars

\* C37 witness: a turn streamed text and ended; the text is in the history,
\* loading is false and the field is empty.
C37_Witness ==
  /\ mode = "tui"
  /\ ~loading
  /\ currentStream = ""
  /\ messages # <<>>
  /\ messages[Len(messages)].role = "assistant"
  /\ messages[Len(messages)].content # ""

\* ------------------------------------------ queryWithSpinner's goroutines
\* The blocking session alone, with the Go scheduler: the main goroutine,
\* the query goroutine and the spinner goroutine each get to run when they
\* can.  The backend and the keyboard owe nothing.
InitRepl == Init /\ mode = "repl"

MainStep == ReplRecv \/ ReplJoin
QueryStep == \E c \in DOMAIN calls : QuerySend(c)
SpinnerStep == SpinSelect \/ SpinPaint \/ SpinWake

NextRepl ==
  \/ \E c \in DOMAIN calls : CallStep(c)
  \/ ReplEmptyLine
  \/ ReplEOF
  \/ ReplCommand
  \/ ReplSubmit
  \/ QueryStep
  \/ MainStep
  \/ SpinnerStep

SpecSpinner ==
  /\ InitRepl
  /\ [][NextRepl]_vars
  /\ WF_vars(MainStep)
  /\ WF_vars(QueryStep)
  /\ WF_vars(SpinnerStep)

\* ------------------------------------- C38: queryWithSpinner winds down
\* The provider call of the turn has returned inside the query goroutine.
CallReturned == \E c \in DOMAIN calls : calls[c].st = "returned"

\* queryWithSpinner has returned and neither goroutine of the turn is left.
TurnOver ==
  /\ pc = "read"
  /\ calls = <<>>
  /\ resultChan = <<>>
  /\ spin = "exited"
  /\ ~indicator

\* The send on the result channel finds the buffer free.
C38_SendNeverBlocks ==
  \A c \in DOMAIN calls :
    calls[c].st = "returned" => (resultChan = <<>> /\ ENABLED <<QuerySend(c)>>_vars)

\* Back in the loop, and at the end of the session, nothing of a turn is
\* left: no call, no pending result, no spinner that has not exited.
C38_NothingLeft ==
  pc \in {"read", "exit"} =>
    (calls = <<>> /\ resultChan = <<>> /\ spin \in {"none", "exited"})

\* Once done is closed the next select of the spinner takes the done case,
\* and a frame is painted only by a spinner that passed the select before.
C38_OneTick ==
  /\ (done /\ spin = "select" /\ spin' # spin) => (spin' = "exited" /\ ~indicator')
  /\ (done /\ frame' # frame) => (~done' \/ spin = "paint")

\* C38: once the provider call has returned, queryWithSpinner returns and
\* the query goroutine and the spinner goroutine have ended; the send of the
\* result never blocks, the spinner takes the done case at its next select,
\* and nothing of the turn is left when the loop goes on.
C38_TurnWindsDown ==
  /\ CallReturned ~> TurnOver
  /\ []C38_SendNeverBlocks
  /\ []C38_NothingLeft
  /\ [][C38_OneTick]_vars

\* C38 witness: a turn is over whose spinner painted a frame and whose call
\* failed: queryWithSpinner returned, the line is cleared, nothing is left.
C38_Witness ==
  /\ TurnOver
  /\ done
  /\ frame > 0
  /\ err # NoErr

\* --------------------------------------- the prefix table, by character
\* The spelling of the words of the table and of two words outside it.
Spell ==
  [gemini |-> <<"g", "e", "m", "i", "n", "i">>,
   gpt |-> <<"g", "p", "t">>,
   o1 |-> <<"o", "1">>,
   o3 |-> <<"o", "3">>,
   claude |-> <<"c", "l", "a", "u", "d", "e">>,
   deepseek |-> <<"d", "e", "e", "p", "s", "e", "e", "k">>,
   mistral |-> <<"m", "i", "s", "t", "r", "a", "l">>,
   codestral |-> <<"c", "o", "d", "e", "s", "t", "r", "a", "l">>,
   pixtral |-> <<"p", "i", "x", "t", "r", "a", "l">>,
   ministral |-> <<"m", "i", "n", "i", "s", "t", "r", "a", "l">>,
   qwen |-> <<"q", "w", "e", "n">>,
   mini |-> <<"m", "i", "n", "i">>,
   llama |-> <<"l", "l", "a", "m", "a">>]

\* strings.HasPrefix(model, prefix) on character sequences.
StartsWith(s, prefix) ==
  Len(s) >= Len(prefix) /\ SubSeq(s, 1, Len(prefix)) = prefix

Upper ==
  [g |-> "G", o |-> "O", c |-> "C", d |-> "D", m |-> "M", p |-> "P", q |-> "Q", l |-> "L"]

\* strings.ToLower, one character.
LowerChar(ch) ==
  IF \E l \in DOMAIN Upper : Upper[l] = ch
  THEN CHOOSE l \in DOMAIN Upper : Upper[l] = ch
  ELSE ch

LowerName(model) == [k \in 1..Len(model) |-> LowerChar(model[k])]

\* The first letter in upper case.
Capitalised(w) ==
  IF w # <<>> /\ w[1] \in DOMAIN Upper THEN <<Upper[w[1]]>> \o Tail(w) ELSE w

\* modelPrefixes as the range loop sees it: (prefix, provider) entries.
PrefixTable ==
  { [prefix |-> Spell[k], provider |-> modelPrefixes[k]] : k \in DOMAIN modelPrefixes }

\* The entries whose prefix the lowercased name starts with.
Matching(model) ==
  { t \in PrefixTable : StartsWith(LowerName(model), t.prefix) }

\* What ResolveProviderFromModel can return for a name: the range loop
\* visits the entries in an order the runtime picks, and returns at the
\* first entry that matches, so any matching entry can be the one; ""
\* when none matches.
ResolveOutcomes(model) ==
  IF Matching(model) = {} THEN {""} ELSE { t.provider : t \in Matching(model) }

MaxName == 10      \* characters of a model name
MaxCalls == 2      \* calls of ResolveProviderFromModel with one name

\* Model names: the words, with a version suffix, with another word behind
\* them, cut at any length, and with a capital first letter.
Suffixes == { <<>>, <<"-", "4">>, <<"1">>, <<"s", "t", "r", "a", "l">> }

LongNames ==
  { Spell[k] \o s : k \in DOMAIN Spell, s \in Suffixes }
    \cup { Spell[j] \o Spell[k] : j \in {"o1", "o3", "gpt", "mini"}, k \in DOMAIN Spell }

CutNames ==
  UNION { { SubSeq(w, 1, n) : n \in 0..Min(Len(w), MaxName) } : w \in LongNames }

ModelNames == CutNames \cup { Capitalised(w) : w \in CutNames }

\* The same name is resolved again and again; input is the name, response
\* the latest result, acc the results so far, frame the number of calls.
InitPrefix ==
  /\ mode = "prefix"
  /\ pc = "start"
  /\ input \in ModelNames
  /\ response = ""
  /\ providerName = ""
  /\ modelName = <<>>
  /\ provider = NilProvider
  /\ calls = <<>>
  /\ messages = <<>>
  /\ msgs = <<>>
  /\ err = NoErr
  /\ resultChan = <<>>
  /\ done = FALSE
  /\ spin = "none"
  /\ frame = 0
  /\ indicator = FALSE
  /\ loading = FALSE
  /\ currentStream = ""
  /\ progq = <<>>
  /\ sigChan = FALSE
  /\ geometry = NoGeometry
  /\ held = [mu |-> "none", streamMu |-> "none"]
  /\ acc = {}

ResolveCall ==
  /\ mode = "prefix"
  /\ frame < MaxCalls
  /\ \E p \in ResolveOutcomes(input) :
       /\ response' = p
       /\ acc' = acc \cup {p}
  /\ frame' = frame + 1
  /\ pc' = "called"
  /\ UNCHANGED <<sigChan, geometry, held, mode, facadeVars, calls, messages, msgs, input,
                 err, resultChan, done, spin, indicator, tuiVars>>

NextPrefix == ResolveCall

SpecPrefix == InitPrefix /\ [][NextPrefix]_vars

\* ------------------------------------ C39: the table's order does not matter
\* Two entries of which one prefix starts with the other name one provider.
PrefixesAgree ==
  \A t1, t2 \in PrefixTable :
    StartsWith(t1.prefix, t2.prefix) => t1.provider = t2.provider

\* C39: ResolveProviderFromModel returns the same provider for a model name
\* whatever order the prefix table is visited in: the calls made with one
\* name have one result, because the entries a name matches agree on the
\* provider.
C39_OrderIndependent ==
  mode = "prefix" =>
    /\ PrefixesAgree
    /\ Cardinality(acc) <= 1
    /\ Cardinality(ResolveOutcomes(input)) = 1

\* C39 witness: a name in mixed case that starts with a prefix of the table
\* and goes on has been resolved twice, both times to mistral.
C39_Witness ==
  /\ mode = "prefix"
  /\ frame = 2
  /\ input = <<"M", "i", "n", "i", "s", "t", "r", "a", "l", "-">>
  /\ acc = {"mistral"}

====
